---- MODULE Spec2Model ----
(***************************************************************************)
(* The API gateway of task-management-microservices: the gin engine that   *)
(* main() builds, the SmartProxy router, the four ForwardTo... reverse     *)
(* proxies and the HealthCheck aggregator, in both revisions of proxy.go   *)
(* (the one that falls back to the monolith and the "pure microservices"   *)
(* one that answers 404).                                                  *)
(*                                                                         *)
(* Paths are sequences of one-character strings so that strings.HasPrefix  *)
(* is computed, not assumed.  Header values are sequences of strings, the  *)
(* empty sequence standing for an absent header.                           *)
(***************************************************************************)
EXTENDS Naturals, Sequences, FiniteSets

VARIABLES
    rev,        \* which proxy.go is built: "fallback" or "pure"
    env,        \* the process environment: variable name -> value ("" = unset)
    baseURL,    \* the package-level backend URLs, resolved at process start
    pc,         \* where the request handler is
    request,    \* the inbound request (c.Request)
    handler,    \* the gin handler the engine chose for it
    target,     \* the backend SmartProxy selected ("none" if none)
    outreq,     \* the outbound request handed to the transport
    answer,     \* what the backend did with the outbound request
    response,   \* what the caller of the gateway observes
    probes,     \* HealthCheck: the http.Get results so far, in call order
    rsuffix,    \* router harness: the continuation appended to every stem
    decided,    \* router harness: stem -> SmartProxy's decision for stem \o rsuffix
    users,      \* table users of the shared database: row id -> row
    projects,   \* table projects: row id -> row (deleted = deleted_at is set)
    tasks,      \* table tasks: row id -> row
    calls,      \* the requests in flight in the backends: goroutine -> gin context
    conns,      \* the requests in flight in the gateway: goroutine -> handler state
    emailService, \* the monolith's package-level *EmailService
    mails       \* the monolith's notification goroutines, in spawn order

vars == <<rev, env, baseURL, pc, request, handler, target, outreq, answer,
          response, probes, rsuffix, decided, users, projects, tasks, calls,
          conns, emailService, mails>>

gatewayVars == <<pc, request, handler, target, outreq, answer, response, probes,
                 conns>>

configVars == <<rev, env, baseURL, rsuffix, decided>>

storeVars == <<users, projects, tasks, calls>>

mailVars == <<emailService, mails>>

-----------------------------------------------------------------------------
(* Bounds of the model *)

\* longest continuation appended to a path stem
MaxSuffixLen == 2

\* how many of the four *_URL environment variables are set at once
MaxEnvSet == 1

-----------------------------------------------------------------------------
(* Strings *)

HasPrefix(s, prefix) ==
    /\ Len(s) >= Len(prefix)
    /\ SubSeq(s, 1, Len(prefix)) = prefix

P_root     == <<"/">>
P_auth     == <<"/", "a", "u", "t", "h">>
P_projects == <<"/", "p", "r", "o", "j", "e", "c", "t", "s">>
P_tasks    == <<"/", "t", "a", "s", "k", "s">>
P_users    == <<"/", "u", "s", "e", "r", "s">>
P_health   == <<"/", "g", "a", "t", "e", "w", "a", "y", "/", "h", "e", "a", "l", "t", "h">>

SuffixChars == {"/", "x"}

RECURSIVE SeqsUpTo(_, _)
SeqsUpTo(S, n) ==
    IF n = 0 THEN {<<>>}
    ELSE LET shorter == SeqsUpTo(S, n - 1)
         IN  shorter \cup {Append(s, c) : s \in shorter, c \in S}

Suffixes == SeqsUpTo(SuffixChars, MaxSuffixLen)

-----------------------------------------------------------------------------
(* Backend registry: package-level URLs (proxy.go) *)

Backends == {"monolith", "auth", "project", "task"}

EnvKey(b) ==
    CASE b = "monolith" -> "MONOLITH_URL"
      [] b = "auth"     -> "AUTH_SERVICE_URL"
      [] b = "project"  -> "PROJECT_SERVICE_URL"
      [] b = "task"     -> "TASK_SERVICE_URL"

EnvKeys == {EnvKey(b) : b \in Backends}

DefaultURL(b) ==
    CASE b = "monolith" -> "http://localhost:8080"
      [] b = "auth"     -> "http://localhost:8082"
      [] b = "project"  -> "http://localhost:8083"
      [] b = "task"     -> "http://localhost:8084"

\* values an operator may export: a well-formed override and one url.Parse
\* rejects ("missing protocol scheme")
OverrideURL == "http://svc.internal:9000"
BadURL      == ":9000"
EnvValues   == {"", OverrideURL, BadURL}

getEnv(e, key, defaultValue) ==
    IF e[key] # "" THEN e[key] ELSE defaultValue

\* The "fallback" revision declares the four URLs as constants; the "pure"
\* revision initialises them with getEnv.
PackageURL(r, e, b) ==
    IF r = "fallback" THEN DefaultURL(b)
    ELSE getEnv(e, EnvKey(b), DefaultURL(b))

MONOLITH_BASE_URL   == baseURL["monolith"]
AUTH_SERVICE_URL    == baseURL["auth"]
PROJECT_SERVICE_URL == baseURL["project"]
TASK_SERVICE_URL    == baseURL["task"]

\* net/url.Parse on the values above: scheme and host of a well-formed
\* absolute URL, an error for a URL that starts with a colon.
urlParse(raw) ==
    CASE raw = "http://localhost:8080"  -> [err |-> FALSE, Scheme |-> "http", Host |-> "localhost:8080"]
      [] raw = "http://localhost:8082"  -> [err |-> FALSE, Scheme |-> "http", Host |-> "localhost:8082"]
      [] raw = "http://localhost:8083"  -> [err |-> FALSE, Scheme |-> "http", Host |-> "localhost:8083"]
      [] raw = "http://localhost:8084"  -> [err |-> FALSE, Scheme |-> "http", Host |-> "localhost:8084"]
      [] raw = OverrideURL              -> [err |-> FALSE, Scheme |-> "http", Host |-> "svc.internal:9000"]
      [] OTHER                          -> [err |-> TRUE,  Scheme |-> "",     Host |-> ""]

-----------------------------------------------------------------------------
(* Router: the closure SmartProxy returns *)

Prefix_auth     == Append(P_auth, "/")
Prefix_projects == P_projects
Prefix_tasks    == P_tasks

\* SmartProxy with the /projects branch calling the task forwarder
SmartProxy_ProjectsToTask(r, path) ==
    IF HasPrefix(path, Prefix_auth) THEN "auth"
    ELSE IF HasPrefix(path, Prefix_projects) THEN "task"
    ELSE IF HasPrefix(path, Prefix_tasks) THEN "task"
    ELSE IF r = "fallback" THEN "monolith"
    ELSE "notfound"

\* Name of the forwarder the closure calls for this path, "notfound" for the
\* c.JSON(404) of the "pure" revision.
SmartProxy(r, path) ==
    IF HasPrefix(path, Prefix_auth) THEN "auth"
    ELSE IF HasPrefix(path, Prefix_projects) THEN "project"
    ELSE IF HasPrefix(path, Prefix_tasks) THEN "task"
    ELSE IF r = "fallback" THEN "monolith"
    ELSE "notfound"

-----------------------------------------------------------------------------
(* The engine main() builds: gin.New(), r.GET and three r.Any *)

Methods == {"GET", "POST", "DELETE"}

\* r.Any("/x/*path", ...): a catch-all matches every path under "/x/".
CatchAllRoots == {P_auth, P_projects, P_tasks}

\* gin's radix tree with the default RedirectTrailingSlash: a path one slash
\* short of (or beyond) a registered route is redirected to it, 301 for GET
\* and 307 for any other method; without a NoRoute handler every other path
\* is answered by gin's own 404.
GinRoute(method, path) ==
    IF method = "GET" /\ path = P_health
        THEN [kind |-> "HealthCheck", location |-> <<>>, code |-> 0]
    ELSE IF \E root \in CatchAllRoots : HasPrefix(path, Append(root, "/"))
        THEN [kind |-> "SmartProxy", location |-> <<>>, code |-> 0]
    ELSE IF path \in CatchAllRoots
        THEN [kind |-> "redirect", location |-> Append(path, "/"),
              code |-> IF method = "GET" THEN 301 ELSE 307]
    ELSE IF method = "GET" /\ path = Append(P_health, "/")
        THEN [kind |-> "redirect", location |-> P_health, code |-> 301]
    ELSE [kind |-> "notfound", location |-> <<>>, code |-> 404]

-----------------------------------------------------------------------------
(* Requests and responses *)

StatusOK                  == 200
StatusNotFound            == 404
StatusInternalServerError == 500
StatusBadGateway          == 502

GatewayHost == "localhost:8081"
ClientIP    == "192.0.2.1"

HeaderNames == {"Authorization", "Keep-Alive", "X-Forwarded-For"}

\* net/http/httputil: the headers a proxy must not relay
hopHeaders == {"Connection", "Proxy-Connection", "Keep-Alive", "Proxy-Authenticate",
               "Proxy-Authorization", "Te", "Trailer", "Transfer-Encoding", "Upgrade"}

RequestHeaders ==
    {[n \in HeaderNames |->
        CASE n = "Authorization"   -> a
          [] n = "Keep-Alive"      -> k
          [] n = "X-Forwarded-For" -> x] :
        a \in {<<>>, <<"Bearer T">>},
        k \in {<<>>, <<"timeout=5">>},
        x \in {<<>>, <<"10.0.0.1">>}}

\* An inbound request as the gateway's server hands it to the engine: the
\* request URL is in origin form, so it has no scheme and no host.
Inbound(method, path, query, body, header) ==
    [Method |-> method, Path |-> path, RawQuery |-> query, Body |-> body,
     Header |-> header, Host |-> GatewayHost, Scheme |-> "", URLHost |-> ""]

NoRequest == [Method |-> "", Path |-> <<>>, RawQuery |-> "", Body |-> "",
              Header |-> [n \in HeaderNames |-> <<>>], Host |-> "",
              Scheme |-> "", URLHost |-> ""]

ResponseHeaderNames == {"Content-Type", "Keep-Alive", "Location"}

NoHeader == [n \in ResponseHeaderNames |-> <<>>]

NoReport == [gateway_status |-> "",
             status   |-> [b \in Backends |-> ""],
             services |-> [b \in Backends |-> ""]]

\* A response body: bytes relayed from a backend (raw), or the fields of the
\* JSON object the gateway itself writes.
NoBody == [raw |-> "", error |-> <<>>, available_routes |-> <<>>, report |-> NoReport]

NoResponse == [status |-> 0, header |-> NoHeader, body |-> NoBody]

\* c.JSON(code, obj)
JSON(code, body) ==
    [status |-> code,
     header |-> [NoHeader EXCEPT !["Content-Type"] = <<"application/json; charset=utf-8">>],
     body   |-> body]

\* What a backend did with an outbound request: nothing yet, an HTTP
\* response, or a transport error.
NoAnswer == [kind |-> "none", status |-> 0, header |-> NoHeader, raw |-> "", err |-> ""]

BackendStatuses == {200, 201, 404, 500, 502}

BackendResponses ==
    {[kind |-> "response", status |-> s,
      header |-> [NoHeader EXCEPT !["Content-Type"] = <<"application/json">>,
                                  !["Keep-Alive"]   = k],
      raw |-> b, err |-> ""] :
        s \in BackendStatuses, k \in {<<>>, <<"timeout=5">>}, b \in {"", "{\"id\":7}"}}

TransportErrors == {"connection refused", "no route to host", "i/o timeout"}

BackendFailures ==
    {[kind |-> "error", status |-> 0, header |-> NoHeader, raw |-> "", err |-> e] :
        e \in TransportErrors}

-----------------------------------------------------------------------------
(* Reverse proxy forwarder: ForwardTo...Service, ForwardToMonolith *)

\* a Director that forgets req.Host = target.Host
Director_KeepsHost(req, t) ==
    [req EXCEPT !.Scheme = t.Scheme, !.URLHost = t.Host]

\* proxy.Director: only the URL scheme, the URL host and Host are assigned.
Director(req, t) ==
    [req EXCEPT !.Scheme = t.Scheme, !.URLHost = t.Host, !.Host = t.Host]

\* httputil.ReverseProxy.ServeHTTP after the Director returned: hop-by-hop
\* headers are deleted and the caller's address is appended to
\* X-Forwarded-For.
removeHopByHopHeaders(h) ==
    [n \in DOMAIN h |-> IF n \in hopHeaders THEN <<>> ELSE h[n]]

addForwardedFor(h) ==
    [h EXCEPT !["X-Forwarded-For"] = Append(@, ClientIP)]

Outbound(req, t) ==
    LET d == Director(req, t)
    IN  [d EXCEPT !.Header = addForwardedFor(removeHopByHopHeaders(d.Header))]

ServiceName(b) ==
    CASE b = "monolith" -> "Monolith"
      [] b = "auth"     -> "Auth"
      [] b = "project"  -> "Project"
      [] b = "task"     -> "Task"

\* an ErrorHandler pasted from ForwardToAuthService without renaming
ErrorHandler_AlwaysAuth(b, err) ==
    [status |-> StatusBadGateway,
     header |-> [NoHeader EXCEPT !["Content-Type"] = <<"text/plain; charset=utf-8">>],
     body   |-> [NoBody EXCEPT !.error = <<"Gateway:", "Auth", "service", "unavailable">>]]

\* an ErrorHandler that answers 503 instead of 502
ErrorHandler_ServiceUnavailable(b, err) ==
    [status |-> 503,
     header |-> [NoHeader EXCEPT !["Content-Type"] = <<"application/json">>],
     body   |-> [NoBody EXCEPT !.error = <<ServiceName(b), "service", "unavailable">>]]

\* proxy.ErrorHandler: rw.WriteHeader(502) and the fixed JSON text; the
\* transport error is only logged.
ErrorHandler(b, err) ==
    [status |-> StatusBadGateway,
     header |-> [NoHeader EXCEPT !["Content-Type"] = <<"text/plain; charset=utf-8">>],
     body   |-> [NoBody EXCEPT !.error = <<"Gateway:", ServiceName(b), "service", "unavailable">>]]

\* a relay that reports every backend 5xx as a gateway failure
Relay_5xxAs502(ans) ==
    [status |-> IF ans.status >= 500 THEN StatusBadGateway ELSE ans.status,
     header |-> removeHopByHopHeaders(ans.header),
     body   |-> [NoBody EXCEPT !.raw = ans.raw]]

\* httputil.ReverseProxy.ServeHTTP on a backend response: hop-by-hop headers
\* are deleted, then header, status and body are copied to the caller.
Relay(ans) ==
    [status |-> ans.status,
     header |-> removeHopByHopHeaders(ans.header),
     body   |-> [NoBody EXCEPT !.raw = ans.raw]]

ConfigurationError ==
    JSON(StatusInternalServerError, [NoBody EXCEPT !.error = <<"Gateway", "configuration", "error">>])

\* a forwarder that ignores the error of url.Parse and proxies anyway
Forward_IgnoresParseError(b, url, req) ==
    [pc |-> "forwarding", outreq |-> Outbound(req, urlParse(url)), response |-> NoResponse]

\* The part of ForwardTo<b> that runs before the transport is used: what the
\* handler has done when it returns or blocks on the backend.
Forward(b, url, req) ==
    LET t == urlParse(url)
    IN  IF t.err
        THEN [pc |-> "done", outreq |-> NoRequest, response |-> ConfigurationError]
        ELSE [pc |-> "forwarding", outreq |-> Outbound(req, t), response |-> NoResponse]

ForwardToAuthService(req)    == Forward("auth", AUTH_SERVICE_URL, req)
ForwardToTaskService(req)    == Forward("task", TASK_SERVICE_URL, req)
ForwardToProjectService(req) == Forward("project", PROJECT_SERVICE_URL, req)
ForwardToMonolith(req)       == Forward("monolith", MONOLITH_BASE_URL, req)

AvailableRoutes == <<"/auth/*", "/projects/*", "/tasks/*", "/gateway/health">>

EndpointNotFound ==
    JSON(StatusNotFound,
         [NoBody EXCEPT !.error = <<"Endpoint", "not", "found", "in", "microservices", "architecture">>,
                        !.available_routes = AvailableRoutes])

\* The closure SmartProxy returns, up to the point where it returns or blocks.
SmartProxyHandler(req) ==
    LET b == SmartProxy(rev, req.Path)
        f == CASE b = "auth"     -> ForwardToAuthService(req)
               [] b = "project"  -> ForwardToProjectService(req)
               [] b = "task"     -> ForwardToTaskService(req)
               [] b = "monolith" -> ForwardToMonolith(req)
               [] OTHER          -> [pc |-> "done", outreq |-> NoRequest,
                                     response |-> EndpointNotFound]
    IN  [pc |-> f.pc, handler |-> "SmartProxy",
         target |-> IF b = "notfound" THEN "none" ELSE b,
         outreq |-> f.outreq, response |-> f.response]

\* gin without a NoRoute handler: "404 page not found" as plain text.
GinNotFound ==
    [status |-> StatusNotFound,
     header |-> [NoHeader EXCEPT !["Content-Type"] = <<"text/plain">>],
     body   |-> [NoBody EXCEPT !.raw = "404 page not found"]]

\* gin's redirectTrailingSlash
GinRedirect(code, location) ==
    [status |-> code,
     header |-> [NoHeader EXCEPT !["Location"] = location],
     body   |-> NoBody]

\* Engine.ServeHTTP for one request, up to the point where the chosen
\* handler returns or blocks on the network.
EngineServe(req) ==
    LET route == GinRoute(req.Method, req.Path)
    IN  CASE route.kind = "SmartProxy"  -> SmartProxyHandler(req)
          [] route.kind = "HealthCheck" ->
                [pc |-> "probing", handler |-> "HealthCheck", target |-> "none",
                 outreq |-> NoRequest, response |-> NoResponse]
          [] route.kind = "redirect"    ->
                [pc |-> "done", handler |-> "none", target |-> "none",
                 outreq |-> NoRequest,
                 response |-> GinRedirect(route.code, route.location)]
          [] OTHER                      ->
                [pc |-> "done", handler |-> "none", target |-> "none",
                 outreq |-> NoRequest, response |-> GinNotFound]

-----------------------------------------------------------------------------
(* Health aggregator: HealthCheck *)

\* the http.Get calls of HealthCheck, in program order
ProbeOrder(r) ==
    IF r = "fallback" THEN <<"monolith", "auth", "project", "task">>
    ELSE <<"auth", "project", "task">>

\* http.Get is http.DefaultClient.Get, and DefaultClient has no Timeout: a
\* server that accepts the connection and never answers is waited for.
DefaultClientHasTimeout == FALSE

NoError == ""

\* What http.Get(url + "/health") can return: an error at once for a URL
\* that does not parse, else a response or a transport error.
GetResults(url) ==
    IF urlParse(url).err
    THEN {[err |-> "missing protocol scheme", StatusCode |-> 0]}
    ELSE {[err |-> NoError, StatusCode |-> c] : c \in {200, 500}}
         \cup {[err |-> e, StatusCode |-> 0] : e \in {"connection refused", "i/o timeout"}}

\* a ladder that calls every backend that answered healthy
serviceStatus_AnsweredIsHealthy(res) ==
    IF res.err # NoError THEN "unreachable" ELSE "healthy"

\* the if/else ladder HealthCheck repeats for every backend
serviceStatus(res) ==
    IF res.err # NoError THEN "unreachable"
    ELSE IF res.StatusCode = 200 THEN "healthy"
    ELSE "unhealthy"

\* a HealthCheck that answers 503 when a probe returned an error
HealthReport_503WhenDown(r, urls, results) ==
    [status |-> IF \E i \in 1..Len(results) : results[i].err # NoError THEN 503 ELSE 200,
     header |-> [NoHeader EXCEPT !["Content-Type"] = <<"application/json; charset=utf-8">>],
     body   |-> [NoBody EXCEPT !.report =
                   [gateway_status |-> "healthy",
                    status   |-> [b \in Backends |-> ""],
                    services |-> [b \in Backends |-> ""]]]]

\* a HealthCheck that writes its report without the entry of the last probe
HealthReport_OmitsLastProbe(r, urls, results) ==
    LET order == ProbeOrder(r)
        idx(b) == CHOOSE i \in 1..Len(order) : order[i] = b
        probed == {order[i] : i \in 1..(Len(order) - 1)}
    IN  [status |-> StatusOK,
         header |-> [NoHeader EXCEPT !["Content-Type"] = <<"application/json; charset=utf-8">>],
         body   |-> [NoBody EXCEPT !.report =
                       [gateway_status |-> "healthy",
                        status   |-> [b \in Backends |->
                                        IF b \in probed THEN "healthy" ELSE ""],
                        services |-> [b \in Backends |->
                                        IF b \in probed THEN urls[b] ELSE ""]]]]

\* the gin.H HealthCheck writes with c.JSON(http.StatusOK, ...)
HealthReport(r, urls, results) ==
    LET order == ProbeOrder(r)
        idx(b) == CHOOSE i \in 1..Len(order) : order[i] = b
        probed == {order[i] : i \in 1..Len(order)}
    IN  JSON(StatusOK,
             [NoBody EXCEPT !.report =
                [gateway_status |-> "healthy",
                 status   |-> [b \in Backends |->
                                 IF b \in probed THEN serviceStatus(results[idx(b)]) ELSE ""],
                 services |-> [b \in Backends |->
                                 IF b \in probed THEN urls[b] ELSE ""]]])

-----------------------------------------------------------------------------
(* The shared database and the requests the backends serve *)

\* rows a table can hold
MaxUsers == 2

MaxProjects == 2

MaxTasks == 2

\* requests served at the same time
MaxCalls == 2

Goroutines == 1..MaxCalls

StatusCreated      == 201
StatusBadRequest   == 400
StatusUnauthorized == 401
StatusConflict     == 409

\* email addresses and passwords are sequences of characters
E_alice == <<"a", "@", "x">>
E_bob   == <<"b", "@", "x">>
E_bad   == <<"a", "x">>

PW_good  == <<"s", "e", "c", "r", "e", "t">>
PW_short == <<"p", "w">>
PW_other == <<"g", "u", "e", "s", "s", "1">>

\* calendar dates as the client writes them
D_jan31  == <<"2", "0", "2", "5", "-", "0", "1", "-", "3", "1">>
D_feb30  == <<"2", "0", "2", "5", "-", "0", "2", "-", "3", "0">>
D_short  == <<"2", "0", "2", "5", "-", "1", "-", "3", "1">>
D_slash  == <<"3", "1", "/", "0", "1", "/", "2", "0", "2", "5">>

\* models.User, models.Project, models.Task: the columns the handlers read
\* or write.  A row's id is its index in the table (primaryKey, serial).
UserRow(name, email, password) ==
    [name |-> name, email |-> email, password |-> password]

ProjectRow(name, owner) == [name |-> name, owner_id |-> owner, deleted |-> FALSE]

TaskRow(title, project, user, status, priority, estimate, due) ==
    [title |-> title, project_id |-> project, assignee_id |-> user,
     creator_id |-> user, status |-> status, priority |-> priority,
     estimate |-> estimate, due_date |-> due, deleted |-> FALSE]

\* the JSON body of a request, one field per key any request struct binds
EmptyJSON ==
    [name |-> "", email |-> <<>>, password |-> <<>>, title |-> "",
     project_id |-> 0, status |-> "", priority |-> "", estimate |-> "",
     due_date |-> <<>>]

\* var task models.Task before anything is loaded into it
NoTask == TaskRow("", 0, 0, "", "", "", <<>>)

\* a gin context: the request, what the middleware stored, the handler's
\* task struct and the response
NoCall ==
    [pc |-> "idle", op |-> "none", header |-> <<>>, id |-> 0,
     body |-> EmptyJSON, user_id |-> 0, loaded |-> 0, created |-> 0,
     count_err |-> FALSE, task |-> NoTask, status |-> 0]

\* NewEmailService: the SMTP credentials come from the environment
NewEmailService(configured) == [SMTPConfigured |-> configured]

IdleStore ==
    /\ users = <<>>
    /\ projects = <<>>
    /\ tasks = <<>>
    /\ calls = [g \in Goroutines |-> NoCall]
    /\ emailService = NewEmailService(FALSE)
    /\ mails = <<>>

\* --- validation ----------------------------------------------------------

isValidStatus(status) == status \in {"Not Started", "In Progress", "Done", "Blocked"}

isValidPriority(priority) == priority \in {"Low", "Medium", "High", "Urgent"}

isValidEstimate(estimate) == estimate \in {"S", "M", "L", "XL"}

Digits == <<"0", "1", "2", "3", "4", "5", "6", "7", "8", "9">>

IsDigit(ch) == \E i \in 1..10 : Digits[i] = ch

DigitValue(ch) == (CHOOSE i \in 1..10 : Digits[i] = ch) - 1

daysIn(month, year) ==
    CASE month \in {4, 6, 9, 11} -> 30
      [] month = 2 -> IF (year % 4 = 0 /\ year % 100 # 0) \/ year % 400 = 0 THEN 29 ELSE 28
      [] OTHER -> 31

\* time.Parse("2006-01-02", s): four digits, "-", two digits, "-", two
\* digits, nothing else, and a day that exists in that month.
timeParse(s) ==
    IF /\ Len(s) = 10
       /\ s[5] = "-"
       /\ s[8] = "-"
       /\ \A i \in {1, 2, 3, 4, 6, 7, 9, 10} : IsDigit(s[i])
    THEN LET year  == 1000 * DigitValue(s[1]) + 100 * DigitValue(s[2])
                      + 10 * DigitValue(s[3]) + DigitValue(s[4])
             month == 10 * DigitValue(s[6]) + DigitValue(s[7])
             day   == 10 * DigitValue(s[9]) + DigitValue(s[10])
         IN  [err |-> ~(month \in 1..12 /\ day >= 1 /\ day <= daysIn(month, year))]
    ELSE [err |-> TRUE]

\* binding:"required,email" (a simplification of the validator's pattern:
\* one "@" with something on both sides)
validEmail(e) ==
    \E i \in 2..(Len(e) - 1) :
        /\ e[i] = "@"
        /\ \A j \in 1..Len(e) : e[j] = "@" => j = i

\* ShouldBindJSON on each request struct: TRUE when binding fails
bindProjectRequest(body) == body.name = ""

bindTaskRequest(body) == body.title = "" \/ body.project_id = 0

bindRegisterRequest(body) ==
    body.name = "" \/ ~validEmail(body.email) \/ Len(body.password) < 6

bindUpdateUserRequest(body) == body.name = "" \/ ~validEmail(body.email)

bindLoginRequest(body) == ~validEmail(body.email) \/ Len(body.password) < 6

\* utils.HashPassword and utils.CheckPassword: a hash is matched by the
\* password it was made from and by no other
HashPassword(password) == <<"bcrypt">> \o password

CheckPassword(password, hash) == hash = HashPassword(password)

\* field checks without the due date
invalidTaskFields_NoDueDate(body) ==
    \/ body.status # "" /\ ~isValidStatus(body.status)
    \/ body.priority # "" /\ ~isValidPriority(body.priority)
    \/ body.estimate # "" /\ ~isValidEstimate(body.estimate)

\* the checks CreateTask and UpdateTask make on the optional fields, in
\* program order: TRUE when one of them answers 400
invalidTaskFields(body) ==
    \/ body.status # "" /\ ~isValidStatus(body.status)
    \/ body.priority # "" /\ ~isValidPriority(body.priority)
    \/ body.estimate # "" /\ ~isValidEstimate(body.estimate)
    \/ body.due_date # <<>> /\ timeParse(body.due_date).err

\* --- authentication ------------------------------------------------------

\* An Authorization header value is a sequence of words and spaces.
RECURSIVE Split(_, _)
Split(s, sep) ==
    IF s = <<>> THEN << <<>> >>
    ELSE LET rest == Split(Tail(s), sep)
         IN  IF Head(s) = sep
             THEN << <<>> >> \o rest
             ELSE << <<Head(s)>> \o Head(rest) >> \o Tail(rest)

\* utils.ValidateJWT: the claims of a token that verifies, an error for
\* any other string.  "tokS" verifies but carries user_id as a string.
ValidateJWT(token) ==
    CASE token = <<"tok1">> -> [err |-> FALSE, numeric |-> TRUE,  user_id |-> 1]
      [] token = <<"tok2">> -> [err |-> FALSE, numeric |-> TRUE,  user_id |-> 2]
      [] token = <<"tokS">> -> [err |-> FALSE, numeric |-> FALSE, user_id |-> 0]
      [] OTHER              -> [err |-> TRUE,  numeric |-> FALSE, user_id |-> 0]

\* a middleware that reads the token from the last word of the header
RequireAuth_LastWord(header) ==
    LET parts  == Split(header, " ")
        claims == ValidateJWT(parts[Len(parts)])
    IN  IF claims.err \/ ~claims.numeric
        THEN [abort |-> TRUE, status |-> StatusUnauthorized, user_id |-> 0]
        ELSE [abort |-> FALSE, status |-> 0, user_id |-> claims.user_id]

\* middleware.RequireAuth: abort with 401, or c.Set("user_id") and c.Next()
RequireAuth(header) ==
    LET parts == Split(header, " ")
    IN  IF header = <<>>
        THEN [abort |-> TRUE, status |-> StatusUnauthorized, user_id |-> 0]
        ELSE IF Len(parts) # 2 \/ parts[1] # <<"Bearer">>
        THEN [abort |-> TRUE, status |-> StatusUnauthorized, user_id |-> 0]
        ELSE LET claims == ValidateJWT(parts[2])
             IN  IF claims.err
                 THEN [abort |-> TRUE, status |-> StatusUnauthorized, user_id |-> 0]
                 ELSE IF ~claims.numeric
                 THEN [abort |-> TRUE, status |-> StatusUnauthorized, user_id |-> 0]
                 ELSE [abort |-> FALSE, status |-> 0, user_id |-> claims.user_id]

\* the route groups of the three mains: every group but /auth uses RequireAuth
Protected(op) == op \notin {"Register", "Login"}

\* --- queries -------------------------------------------------------------

\* ids of the rows a query on a table with deleted_at can return:
\* soft-deleted rows are never selected
Live(table) == {i \in 1..Len(table) : ~table[i].deleted}

\* Preload("Project") on a loaded task: the owner of its project, the zero
\* value when the project row is soft-deleted
PreloadedOwner(task) ==
    IF task.project_id \in 1..Len(projects) /\ ~projects[task.project_id].deleted
    THEN projects[task.project_id].owner_id
    ELSE 0

-----------------------------------------------------------------------------
(* The gateway process *)

EnvChoices ==
    {e \in [EnvKeys -> EnvValues] : Cardinality({k \in EnvKeys : e[k] # ""}) <= MaxEnvSet}

Stems == {P_root, P_auth, P_projects, P_tasks, P_users, P_health}

Undecided == "-"

\* a goroutine of the gateway's server with no request to serve
NoConn ==
    [pc |-> "idle", request |-> NoRequest, handler |-> "none", target |-> "none",
     outreq |-> NoRequest, answer |-> NoAnswer, response |-> NoResponse,
     probes |-> <<>>]

IdleGateway ==
    /\ pc = "idle"
    /\ request = NoRequest
    /\ handler = "none"
    /\ target = "none"
    /\ outreq = NoRequest
    /\ answer = NoAnswer
    /\ response = NoResponse
    /\ probes = <<>>
    /\ conns = [g \in Goroutines |-> NoConn]

Init ==
    /\ rev \in {"fallback", "pure"}
    /\ env \in EnvChoices
    /\ baseURL = [b \in Backends |-> PackageURL(rev, env, b)]
    /\ IdleGateway
    /\ rsuffix = <<>>
    /\ decided = [s \in Stems |-> Undecided]
    /\ IdleStore

RequestPaths ==
    {stem \o suffix : stem \in {P_auth, P_projects, P_tasks, P_users, P_health},
                      suffix \in Suffixes}

PlainHeader == [n \in HeaderNames |-> <<>>]

\* paths on which every method, query, body and header combination is sent
PayloadPaths ==
    {stem \o <<"/", "x">> : stem \in {P_auth, P_projects, P_tasks, P_users}}

\* every path with every method, and every payload on the payload paths
Requests ==
    {Inbound(m, p, "", "", PlainHeader) : m \in Methods, p \in RequestPaths}
    \cup
    {Inbound(m, p, q, b, h) :
        m \in Methods, p \in PayloadPaths, q \in {"", "page=2"},
        b \in {"", "{\"name\":\"n\"}"}, h \in RequestHeaders}

\* A request arrives and the engine runs its handler until the handler
\* returns or waits for a backend.
Accept(reqs) ==
    /\ pc = "idle"
    /\ \E req \in reqs :
          LET served == EngineServe(req)
          IN  /\ request' = req
              /\ pc' = served.pc
              /\ handler' = served.handler
              /\ target' = served.target
              /\ outreq' = served.outreq
              /\ response' = served.response
    /\ answer' = NoAnswer
    /\ probes' = <<>>
    /\ UNCHANGED <<rev, env, baseURL, rsuffix, decided>>
    /\ UNCHANGED storeVars
    /\ UNCHANGED conns
    /\ UNCHANGED mailVars

\* transport.RoundTrip returned a response: ServeHTTP relays it.
BackendResponds ==
    /\ pc = "forwarding"
    /\ \E ans \in BackendResponses :
          /\ answer' = ans
          /\ response' = Relay(ans)
    /\ pc' = "done"
    /\ UNCHANGED <<rev, env, baseURL, request, handler, target, outreq, probes,
                   rsuffix, decided>>
    /\ UNCHANGED storeVars
    /\ UNCHANGED conns
    /\ UNCHANGED mailVars

\* transport.RoundTrip returned an error: ServeHTTP calls proxy.ErrorHandler.
BackendFails ==
    /\ pc = "forwarding"
    /\ \E ans \in BackendFailures :
          /\ answer' = ans
          /\ response' = ErrorHandler(target, ans.err)
    /\ pc' = "done"
    /\ UNCHANGED <<rev, env, baseURL, request, handler, target, outreq, probes,
                   rsuffix, decided>>
    /\ UNCHANGED storeVars
    /\ UNCHANGED conns
    /\ UNCHANGED mailVars

\* The response is on the wire and the handler's goroutine ends; the server
\* is ready for the next request.
Return ==
    /\ pc = "done"
    /\ pc' = "idle"
    /\ request' = NoRequest
    /\ handler' = "none"
    /\ target' = "none"
    /\ outreq' = NoRequest
    /\ answer' = NoAnswer
    /\ response' = NoResponse
    /\ probes' = <<>>
    /\ UNCHANGED <<rev, env, baseURL, rsuffix, decided>>
    /\ UNCHANGED storeVars
    /\ UNCHANGED conns
    /\ UNCHANGED mailVars

NextProbe == ProbeOrder(rev)[Len(probes) + 1]

\* One http.Get of HealthCheck returns; after the last one the handler
\* classifies the results and writes the report.
HealthProbeReturns ==
    /\ pc = "probing"
    /\ \E res \in GetResults(baseURL[NextProbe]) :
          LET results == Append(probes, res)
          IN  /\ probes' = results
              /\ IF Len(results) = Len(ProbeOrder(rev))
                 THEN /\ pc' = "done"
                      /\ response' = HealthReport(rev, baseURL, results)
                 ELSE UNCHANGED <<pc, response>>
    /\ UNCHANGED <<rev, env, baseURL, request, handler, target, outreq, answer,
                   rsuffix, decided>>
    /\ UNCHANGED storeVars
    /\ UNCHANGED conns
    /\ UNCHANGED mailVars

\* The probed server accepted the connection and never answers.
HealthProbeUnanswered ==
    /\ pc = "probing"
    /\ ~urlParse(baseURL[NextProbe]).err
    /\ IF DefaultClientHasTimeout
       THEN LET results == Append(probes, [err |-> "Client.Timeout exceeded", StatusCode |-> 0])
            IN  /\ probes' = results
                /\ IF Len(results) = Len(ProbeOrder(rev))
                   THEN /\ pc' = "done"
                        /\ response' = HealthReport(rev, baseURL, results)
                   ELSE UNCHANGED <<pc, response>>
       ELSE /\ pc' = "blocked"
            /\ UNCHANGED <<probes, response>>
    /\ UNCHANGED <<rev, env, baseURL, request, handler, target, outreq, answer,
                   rsuffix, decided>>
    /\ UNCHANGED storeVars
    /\ UNCHANGED conns
    /\ UNCHANGED mailVars

Next ==
    \/ Accept(Requests)
    \/ BackendResponds
    \/ BackendFails
    \/ HealthProbeReturns
    \/ HealthProbeUnanswered
    \/ Return

Spec == Init /\ [][Next]_vars

-----------------------------------------------------------------------------
(* The health endpoint alone, with the scheduling the runtime guarantees:  *)
(* a handler that can take a step takes it, and a backend that is going to *)
(* answer does answer.                                                     *)

HealthRequests ==
    {Inbound("GET", p, "", "", PlainHeader) :
        p \in {P_health \o suffix : suffix \in Suffixes}}

HealthNext ==
    \/ Accept(HealthRequests)
    \/ HealthProbeReturns
    \/ HealthProbeUnanswered
    \/ Return

HealthSpec == Init /\ [][HealthNext]_vars /\ WF_vars(HealthNext)

-----------------------------------------------------------------------------
(* The router alone: SmartProxy applied to stem \o rsuffix for every stem  *)

RouteInit ==
    /\ rev \in {"fallback", "pure"}
    /\ env = [k \in EnvKeys |-> ""]
    /\ baseURL = [b \in Backends |-> PackageURL(rev, env, b)]
    /\ IdleGateway
    /\ rsuffix \in Suffixes
    /\ decided = [s \in Stems |-> Undecided]
    /\ IdleStore

Route(stem) ==
    /\ decided[stem] = Undecided
    /\ decided' = [decided EXCEPT ![stem] = SmartProxy(rev, stem \o rsuffix)]
    /\ UNCHANGED <<rev, env, baseURL, rsuffix>>
    /\ UNCHANGED gatewayVars
    /\ UNCHANGED mailVars
    /\ UNCHANGED storeVars

RouteNext == \E stem \in Stems : Route(stem)

RouteSpec == RouteInit /\ [][RouteNext]_vars

-----------------------------------------------------------------------------
(* The backends: the handlers of the auth, project and task services and   *)
(* of the monolith, which are the same code on the same database.  Every    *)
(* action is one handler from one database statement to the next; two      *)
(* requests in flight interleave at the statements.                         *)

Replied(c, code) == [c EXCEPT !.pc = "done", !.status = code]

At(c, label) == [c EXCEPT !.pc = label]

InFlight(op) ==
    Cardinality({g \in Goroutines : calls[g].op = op /\ calls[g].pc \notin {"idle", "done"}})

\* the tables are bounded: an insert is admitted only while there is room
Admissible(req) ==
    /\ req.op = "CreateProject" => Len(projects) + InFlight("CreateProject") < MaxProjects
    /\ req.op = "CreateTask" => Len(tasks) + InFlight("CreateTask") < MaxTasks
    /\ req.op = "Register" => Len(users) + InFlight("Register") < MaxUsers

\* gin dispatches a request: the group's RequireAuth runs and, unless it
\* aborted the chain, the handler is entered.
Arrive(g, reqs) ==
    /\ calls[g].pc = "idle"
    /\ \E req \in reqs :
          /\ Admissible(req)
          /\ LET auth == IF Protected(req.op) THEN RequireAuth(req.header)
                         ELSE [abort |-> FALSE, status |-> 0, user_id |-> 0]
             IN  calls' = [calls EXCEPT ![g] =
                              IF auth.abort
                              THEN Replied(req, auth.status)
                              ELSE [req EXCEPT !.pc = req.op, !.user_id = auth.user_id]]
    /\ UNCHANGED <<users, projects, tasks>>
    /\ UNCHANGED configVars
    /\ UNCHANGED gatewayVars
    /\ UNCHANGED mailVars

\* the response is written and the goroutine ends
Finish(g) ==
    /\ calls[g].pc = "done"
    /\ calls' = [calls EXCEPT ![g] = NoCall]
    /\ UNCHANGED <<users, projects, tasks>>
    /\ UNCHANGED configVars
    /\ UNCHANGED gatewayVars
    /\ UNCHANGED mailVars

\* --- projects ------------------------------------------------------------

\* bind, then First by (name, owner_id)
CreateProject(g) ==
    LET c == calls[g]
        dup == {i \in Live(projects) :
                   projects[i].name = c.body.name /\ projects[i].owner_id = c.user_id}
    IN  /\ c.pc = "CreateProject"
        /\ calls' = [calls EXCEPT ![g] =
                        IF bindProjectRequest(c.body) THEN Replied(c, StatusBadRequest)
                        ELSE IF dup # {} THEN Replied(c, StatusConflict)
                        ELSE At(c, "CreateProject.Create")]
        /\ UNCHANGED <<users, projects, tasks>>
        /\ UNCHANGED configVars
        /\ UNCHANGED gatewayVars
        /\ UNCHANGED mailVars

\* DB.Create(&project): there is no unique index on (name, owner_id)
CreateProject_Create(g) ==
    LET c == calls[g]
    IN  /\ c.pc = "CreateProject.Create"
        /\ projects' = Append(projects, ProjectRow(c.body.name, c.user_id))
        /\ calls' = [calls EXCEPT ![g] =
                        Replied([c EXCEPT !.created = Len(projects) + 1], StatusCreated)]
        /\ UNCHANGED <<users, tasks>>
        /\ UNCHANGED configVars
        /\ UNCHANGED gatewayVars
        /\ UNCHANGED mailVars

GetProjectByID(g) ==
    LET c == calls[g]
        own == {i \in Live(projects) : i = c.id /\ projects[i].owner_id = c.user_id}
    IN  /\ c.pc = "GetProjectByID"
        /\ calls' = [calls EXCEPT ![g] =
                        IF own = {} THEN Replied(c, StatusNotFound)
                        ELSE Replied(c, StatusOK)]
        /\ UNCHANGED <<users, projects, tasks>>
        /\ UNCHANGED configVars
        /\ UNCHANGED gatewayVars
        /\ UNCHANGED mailVars

\* bind, then First by (id, owner_id)
UpdateProject(g) ==
    LET c == calls[g]
        own == {i \in Live(projects) : i = c.id /\ projects[i].owner_id = c.user_id}
    IN  /\ c.pc = "UpdateProject"
        /\ calls' = [calls EXCEPT ![g] =
                        IF bindProjectRequest(c.body) THEN Replied(c, StatusBadRequest)
                        ELSE IF own = {} THEN Replied(c, StatusNotFound)
                        ELSE At(c, "UpdateProject.First")]
        /\ UNCHANGED <<users, projects, tasks>>
        /\ UNCHANGED configVars
        /\ UNCHANGED gatewayVars
        /\ UNCHANGED mailVars

\* First by (name, owner_id, id != id)
UpdateProject_First(g) ==
    LET c == calls[g]
        dup == {i \in Live(projects) :
                   /\ projects[i].name = c.body.name
                   /\ projects[i].owner_id = c.user_id
                   /\ i # c.id}
    IN  /\ c.pc = "UpdateProject.First"
        /\ calls' = [calls EXCEPT ![g] =
                        IF dup # {} THEN Replied(c, StatusConflict)
                        ELSE At(c, "UpdateProject.Save")]
        /\ UNCHANGED <<users, projects, tasks>>
        /\ UNCHANGED configVars
        /\ UNCHANGED gatewayVars
        /\ UNCHANGED mailVars

\* DB.Save(&project): UPDATE ... WHERE id = ? AND deleted_at IS NULL
UpdateProject_Save(g) ==
    LET c == calls[g]
    IN  /\ c.pc = "UpdateProject.Save"
        /\ projects' = IF projects[c.id].deleted THEN projects
                       ELSE [projects EXCEPT ![c.id].name = c.body.name]
        /\ calls' = [calls EXCEPT ![g] = Replied(c, StatusOK)]
        /\ UNCHANGED <<users, tasks>>
        /\ UNCHANGED configVars
        /\ UNCHANGED gatewayVars
        /\ UNCHANGED mailVars

\* First by (id, owner_id)
DeleteProject(g) ==
    LET c == calls[g]
        own == {i \in Live(projects) : i = c.id /\ projects[i].owner_id = c.user_id}
    IN  /\ c.pc = "DeleteProject"
        /\ calls' = [calls EXCEPT ![g] =
                        IF own = {} THEN Replied(c, StatusNotFound)
                        ELSE At(c, "DeleteProject.Count")]
        /\ UNCHANGED <<users, projects, tasks>>
        /\ UNCHANGED configVars
        /\ UNCHANGED gatewayVars
        /\ UNCHANGED mailVars

\* Model(&Task{}).Where("project_id = ?").Count(&taskCount)
DeleteProject_Count(g) ==
    LET c == calls[g]
        taskCount == Cardinality({i \in Live(tasks) : tasks[i].project_id = c.id})
    IN  /\ c.pc = "DeleteProject.Count"
        /\ calls' = [calls EXCEPT ![g] =
                        IF taskCount > 0 THEN Replied(c, StatusBadRequest)
                        ELSE At(c, "DeleteProject.Delete")]
        /\ UNCHANGED <<users, projects, tasks>>
        /\ UNCHANGED configVars
        /\ UNCHANGED gatewayVars
        /\ UNCHANGED mailVars

\* The Count statement returns an error (a lost connection, a statement
\* timeout).  The handler does not read the returned *gorm.DB: taskCount
\* keeps its zero value and the handler goes on to Delete.
DeleteProject_CountFails(g) ==
    LET c == calls[g]
        taskCount == 0
    IN  /\ c.pc = "DeleteProject.Count"
        /\ calls' = [calls EXCEPT ![g] =
                        IF taskCount > 0 THEN Replied(c, StatusBadRequest)
                        ELSE [c EXCEPT !.pc = "DeleteProject.Delete", !.count_err = TRUE]]
        /\ UNCHANGED <<users, projects, tasks>>
        /\ UNCHANGED configVars
        /\ UNCHANGED gatewayVars
        /\ UNCHANGED mailVars

\* DB.Delete(&project): a soft delete, deleted_at is set
DeleteProject_Delete(g) ==
    LET c == calls[g]
    IN  /\ c.pc = "DeleteProject.Delete"
        /\ projects' = [projects EXCEPT ![c.id].deleted = TRUE]
        /\ calls' = [calls EXCEPT ![g] = Replied(c, StatusOK)]
        /\ UNCHANGED <<users, tasks>>
        /\ UNCHANGED configVars
        /\ UNCHANGED gatewayVars
        /\ UNCHANGED mailVars

\* --- tasks ---------------------------------------------------------------

\* a CreateTask that looks the project up by id alone
CreateTask_AnyProject(g) ==
    LET c == calls[g]
        any == {i \in Live(projects) : i = c.body.project_id}
    IN  /\ c.pc = "CreateTask"
        /\ calls' = [calls EXCEPT ![g] =
                        IF bindTaskRequest(c.body) THEN Replied(c, StatusBadRequest)
                        ELSE IF any = {} THEN Replied(c, StatusNotFound)
                        ELSE IF invalidTaskFields(c.body) THEN Replied(c, StatusBadRequest)
                        ELSE At(c, "CreateTask.Create")]
        /\ UNCHANGED <<users, projects, tasks>>
        /\ UNCHANGED configVars
        /\ UNCHANGED gatewayVars
        /\ UNCHANGED mailVars

\* bind, First project by (id, owner_id), then the field checks
CreateTask(g) ==
    LET c == calls[g]
        own == {i \in Live(projects) :
                   i = c.body.project_id /\ projects[i].owner_id = c.user_id}
    IN  /\ c.pc = "CreateTask"
        /\ calls' = [calls EXCEPT ![g] =
                        IF bindTaskRequest(c.body) THEN Replied(c, StatusBadRequest)
                        ELSE IF own = {} THEN Replied(c, StatusNotFound)
                        ELSE IF invalidTaskFields(c.body) THEN Replied(c, StatusBadRequest)
                        ELSE At(c, "CreateTask.Create")]
        /\ UNCHANGED <<users, projects, tasks>>
        /\ UNCHANGED configVars
        /\ UNCHANGED gatewayVars
        /\ UNCHANGED mailVars

\* DB.Create(&task) and the 201 built from the task struct: an empty Status
\* takes the column default, in the row and in the struct
CreateTask_Insert(g) ==
    LET c == calls[g]
        b == c.body
        task == TaskRow(b.title, b.project_id, c.user_id,
                        IF b.status = "" THEN "Not Started" ELSE b.status,
                        b.priority, b.estimate, b.due_date)
    IN  /\ c.pc = "CreateTask.Create"
        /\ tasks' = Append(tasks, task)
        /\ calls' = [calls EXCEPT ![g] =
                        Replied([c EXCEPT !.created = Len(tasks) + 1, !.task = task],
                                StatusCreated)]
        /\ UNCHANGED <<users, projects>>
        /\ UNCHANGED configVars
        /\ UNCHANGED gatewayVars

\* the task service: nothing else happens
CreateTask_Create(g) ==
    /\ CreateTask_Insert(g)
    /\ UNCHANGED mailVars

\* a lookup by id alone
OwnTask_ByIdOnly(c) == {i \in Live(tasks) : i = c.id}

\* the lookup GetTaskByID, UpdateTask and DeleteTask share: First by
\* (id, assignee_id) with Preload("Project"), then the owner comparison
OwnTask(c) ==
    {i \in Live(tasks) :
        /\ i = c.id
        /\ tasks[i].assignee_id = c.user_id
        /\ PreloadedOwner(tasks[i]) = c.user_id}

GetTaskByID(g) ==
    LET c == calls[g]
    IN  /\ c.pc = "GetTaskByID"
        /\ calls' = [calls EXCEPT ![g] =
                        IF OwnTask(c) = {} THEN Replied(c, StatusNotFound)
                        ELSE Replied(c, StatusOK)]
        /\ UNCHANGED <<users, projects, tasks>>
        /\ UNCHANGED configVars
        /\ UNCHANGED gatewayVars
        /\ UNCHANGED mailVars

\* bind, load the task; when the project does not change, the field checks
UpdateTask(g) ==
    LET c == calls[g]
    IN  /\ c.pc = "UpdateTask"
        /\ calls' = [calls EXCEPT ![g] =
                        IF bindTaskRequest(c.body) THEN Replied(c, StatusBadRequest)
                        ELSE IF OwnTask(c) = {} THEN Replied(c, StatusNotFound)
                        ELSE IF c.body.project_id # tasks[c.id].project_id
                        THEN [c EXCEPT !.pc = "UpdateTask.First",
                                       !.loaded = tasks[c.id].project_id,
                                       !.task = tasks[c.id]]
                        ELSE IF invalidTaskFields(c.body) THEN Replied(c, StatusBadRequest)
                        ELSE [c EXCEPT !.pc = "UpdateTask.Save",
                                       !.loaded = tasks[c.id].project_id,
                                       !.task = tasks[c.id]]]
        /\ UNCHANGED <<users, projects, tasks>>
        /\ UNCHANGED configVars
        /\ UNCHANGED gatewayVars
        /\ UNCHANGED mailVars

\* First new project by (id, owner_id), then the field checks
UpdateTask_First(g) ==
    LET c == calls[g]
        own == {i \in Live(projects) :
                   i = c.body.project_id /\ projects[i].owner_id = c.user_id}
    IN  /\ c.pc = "UpdateTask.First"
        /\ calls' = [calls EXCEPT ![g] =
                        IF own = {} THEN Replied(c, StatusNotFound)
                        ELSE IF invalidTaskFields(c.body) THEN Replied(c, StatusBadRequest)
                        ELSE At(c, "UpdateTask.Save")]
        /\ UNCHANGED <<users, projects, tasks>>
        /\ UNCHANGED configVars
        /\ UNCHANGED gatewayVars
        /\ UNCHANGED mailVars

\* The project_id DB.Save(&task) writes.  The handler assigns the request's
\* value to task.ProjectID, but task.Project still holds the preloaded old
\* project, and saving a belongs-to association sets the foreign key from
\* the associated row: either value can reach the table.
SavedProjectIDs(c) == {c.body.project_id, c.loaded}

\* the seven assignments to the loaded struct that precede DB.Save
Assigned(task, b) ==
    [task EXCEPT !.title = b.title, !.project_id = b.project_id,
                 !.status = b.status, !.priority = b.priority,
                 !.estimate = b.estimate, !.due_date = b.due_date]

\* DB.Save(&task) and the 200 built from the task struct: every column the
\* handler assigned is written as given
UpdateTask_Write(g) ==
    LET c == calls[g]
        b == c.body
    IN  /\ c.pc = "UpdateTask.Save"
        /\ \E pid \in SavedProjectIDs(c) :
              tasks' = IF tasks[c.id].deleted THEN tasks
                       ELSE [tasks EXCEPT ![c.id] =
                                [@ EXCEPT !.title = b.title, !.project_id = pid,
                                          !.status = b.status, !.priority = b.priority,
                                          !.estimate = b.estimate, !.due_date = b.due_date]]
        /\ calls' = [calls EXCEPT ![g] =
                        Replied([c EXCEPT !.task = Assigned(c.task, b)], StatusOK)]
        /\ UNCHANGED <<users, projects>>
        /\ UNCHANGED configVars
        /\ UNCHANGED gatewayVars

\* the task service: nothing else happens
UpdateTask_Save(g) ==
    /\ UpdateTask_Write(g)
    /\ UNCHANGED mailVars

DeleteTask(g) ==
    LET c == calls[g]
    IN  /\ c.pc = "DeleteTask"
        /\ calls' = [calls EXCEPT ![g] =
                        IF OwnTask(c) = {} THEN Replied(c, StatusNotFound)
                        ELSE At(c, "DeleteTask.Delete")]
        /\ UNCHANGED <<users, projects, tasks>>
        /\ UNCHANGED configVars
        /\ UNCHANGED gatewayVars
        /\ UNCHANGED mailVars

DeleteTask_Delete(g) ==
    LET c == calls[g]
    IN  /\ c.pc = "DeleteTask.Delete"
        /\ tasks' = [tasks EXCEPT ![c.id].deleted = TRUE]
        /\ calls' = [calls EXCEPT ![g] = Replied(c, StatusOK)]
        /\ UNCHANGED <<users, projects>>
        /\ UNCHANGED configVars
        /\ UNCHANGED gatewayVars
        /\ UNCHANGED mailVars

\* --- users ---------------------------------------------------------------

\* First by email (and id != except): TRUE when a row is found
EmailTaken(email, except) ==
    \E i \in 1..Len(users) : users[i].email = email /\ i # except

\* a users table migrated without the index
uniqueIndex_Absent(email, except) == FALSE

\* gorm:"uniqueIndex" on users.email: TRUE when writing the email into the
\* row except (0 for a new row) violates the index
uniqueIndex(email, except) ==
    \E i \in 1..Len(users) : users[i].email = email /\ i # except

\* bind, then First by email
Register(g) ==
    LET c == calls[g]
    IN  /\ c.pc = "Register"
        /\ calls' = [calls EXCEPT ![g] =
                        IF bindRegisterRequest(c.body) THEN Replied(c, StatusBadRequest)
                        ELSE IF EmailTaken(c.body.email, 0) THEN Replied(c, StatusConflict)
                        ELSE At(c, "Register.Create")]
        /\ UNCHANGED <<users, projects, tasks>>
        /\ UNCHANGED configVars
        /\ UNCHANGED gatewayVars
        /\ UNCHANGED mailVars

\* DB.Create(&user): fails on the unique index, else the row is inserted
Register_Create(g) ==
    LET c == calls[g]
    IN  /\ c.pc = "Register.Create"
        /\ IF uniqueIndex(c.body.email, 0)
           THEN /\ calls' = [calls EXCEPT ![g] = Replied(c, StatusInternalServerError)]
                /\ UNCHANGED users
           ELSE /\ users' = Append(users, UserRow(c.body.name, c.body.email,
                                                HashPassword(c.body.password)))
                /\ calls' = [calls EXCEPT ![g] =
                                Replied([c EXCEPT !.created = Len(users) + 1], StatusCreated)]
        /\ UNCHANGED <<projects, tasks>>
        /\ UNCHANGED configVars
        /\ UNCHANGED gatewayVars
        /\ UNCHANGED mailVars

\* bind, then First by (email, id != user_id)
UpdateCurrentUser(g) ==
    LET c == calls[g]
    IN  /\ c.pc = "UpdateCurrentUser"
        /\ calls' = [calls EXCEPT ![g] =
                        IF bindUpdateUserRequest(c.body) THEN Replied(c, StatusBadRequest)
                        ELSE IF EmailTaken(c.body.email, c.user_id) THEN Replied(c, StatusConflict)
                        ELSE At(c, "UpdateCurrentUser.First")]
        /\ UNCHANGED <<users, projects, tasks>>
        /\ UNCHANGED configVars
        /\ UNCHANGED gatewayVars
        /\ UNCHANGED mailVars

\* First(&user, userID)
UpdateCurrentUser_First(g) ==
    LET c == calls[g]
    IN  /\ c.pc = "UpdateCurrentUser.First"
        /\ calls' = [calls EXCEPT ![g] =
                        IF c.user_id \notin 1..Len(users) THEN Replied(c, StatusNotFound)
                        ELSE At(c, "UpdateCurrentUser.Save")]
        /\ UNCHANGED <<users, projects, tasks>>
        /\ UNCHANGED configVars
        /\ UNCHANGED gatewayVars
        /\ UNCHANGED mailVars

\* DB.Save(&user): fails on the unique index, else name and email are written
UpdateCurrentUser_Save(g) ==
    LET c == calls[g]
    IN  /\ c.pc = "UpdateCurrentUser.Save"
        /\ IF uniqueIndex(c.body.email, c.user_id)
           THEN /\ calls' = [calls EXCEPT ![g] = Replied(c, StatusInternalServerError)]
                /\ UNCHANGED users
           ELSE /\ users' = [users EXCEPT ![c.user_id] =
                               [@ EXCEPT !.name = c.body.name, !.email = c.body.email]]
                /\ calls' = [calls EXCEPT ![g] = Replied(c, StatusOK)]
        /\ UNCHANGED <<projects, tasks>>
        /\ UNCHANGED configVars
        /\ UNCHANGED gatewayVars
        /\ UNCHANGED mailVars

\* --- requests ------------------------------------------------------------

\* --- login -----------------------------------------------------------------

\* bind, First by email, CheckPassword, GenerateJWT: one statement, so the
\* handler runs to its response
Login(g) ==
    LET c == calls[g]
        found == {i \in 1..Len(users) : users[i].email = c.body.email}
    IN  /\ c.pc = "Login"
        /\ calls' = [calls EXCEPT ![g] =
                        IF bindLoginRequest(c.body) THEN Replied(c, StatusBadRequest)
                        ELSE IF found = {} THEN Replied(c, StatusBadRequest)
                        ELSE IF \E i \in found : ~CheckPassword(c.body.password, users[i].password)
                        THEN Replied(c, StatusBadRequest)
                        ELSE Replied([c EXCEPT !.user_id = CHOOSE i \in found : TRUE],
                                     StatusOK)]
        /\ UNCHANGED <<users, projects, tasks>>
        /\ UNCHANGED configVars
        /\ UNCHANGED gatewayVars
        /\ UNCHANGED mailVars

Call(op, header, id, body) ==
    [NoCall EXCEPT !.op = op, !.header = header, !.id = id, !.body = body]

Bearer(token) == <<"Bearer", " ", token>>

Titled(title, project) == [EmptyJSON EXCEPT !.title = title, !.project_id = project]

\* the state of a backend process set whose database holds the given rows
StoreInit(u, p, t) ==
    /\ rev = "pure"
    /\ env = [k \in EnvKeys |-> ""]
    /\ baseURL = [b \in Backends |-> PackageURL(rev, env, b)]
    /\ IdleGateway
    /\ rsuffix = <<>>
    /\ decided = [s \in Stems |-> Undecided]
    /\ users = u
    /\ projects = p
    /\ tasks = t
    /\ calls = [g \in Goroutines |-> NoCall]
    /\ emailService = NewEmailService(FALSE)
    /\ mails = <<>>

Alice == UserRow("alice", E_alice, HashPassword(PW_good))
Bob   == UserRow("bob", E_bob, HashPassword(PW_good))

ProjectHandlers(g) ==
    \/ CreateProject(g)
    \/ CreateProject_Create(g)
    \/ GetProjectByID(g)
    \/ UpdateProject(g)
    \/ UpdateProject_First(g)
    \/ UpdateProject_Save(g)
    \/ DeleteProject(g)
    \/ DeleteProject_Count(g)
    \/ DeleteProject_Delete(g)

TaskHandlers(g) ==
    \/ CreateTask(g)
    \/ CreateTask_Create(g)
    \/ UpdateTask(g)
    \/ UpdateTask_First(g)
    \/ UpdateTask_Save(g)
    \/ DeleteTask(g)
    \/ DeleteTask_Delete(g)

UserHandlers(g) ==
    \/ Register(g)
    \/ Register_Create(g)
    \/ UpdateCurrentUser(g)
    \/ UpdateCurrentUser_First(g)
    \/ UpdateCurrentUser_Save(g)

-----------------------------------------------------------------------------
(* The project handlers, served concurrently for two registered users *)

Logins == {Bearer("tok1"), Bearer("tok2")}

ProjectNames == {"a", "b"}

Named(n) == [EmptyJSON EXCEPT !.name = n]

ProjectCalls ==
    {Call("CreateProject", h, 0, Named(n)) : h \in Logins, n \in ProjectNames \cup {""}}
    \cup
    {Call("UpdateProject", h, i, Named(n)) :
        h \in Logins, i \in 1..MaxProjects, n \in ProjectNames \cup {""}}
    \cup
    {Call(op, h, i, EmptyJSON) :
        op \in {"GetProjectByID", "DeleteProject"}, h \in Logins, i \in 1..MaxProjects}

ProjectNext ==
    \E g \in Goroutines :
        \/ Arrive(g, ProjectCalls)
        \/ ProjectHandlers(g)
        \/ Finish(g)

ProjectSpec == StoreInit(<<Alice, Bob>>, <<>>, <<>>) /\ [][ProjectNext]_vars

-----------------------------------------------------------------------------
(* The task handlers and DeleteProject, served concurrently for one user   *)
(* who owns two projects                                                    *)

TaskCalls ==
    {Call("CreateTask", Bearer("tok1"), 0, Titled("t", p)) : p \in 1..2}
    \cup
    {Call("UpdateTask", Bearer("tok1"), i, Titled("t", p)) : i \in 1..MaxTasks, p \in 1..2}
    \cup
    {Call("DeleteTask", Bearer("tok1"), i, EmptyJSON) : i \in 1..MaxTasks}
    \cup
    {Call("DeleteProject", Bearer("tok1"), p, EmptyJSON) : p \in 1..2}

TaskNext ==
    \E g \in Goroutines :
        \/ Arrive(g, TaskCalls)
        \/ TaskHandlers(g)
        \/ DeleteProject(g)
        \/ DeleteProject_Count(g)
        \/ DeleteProject_Delete(g)
        \/ Finish(g)

TaskSpec ==
    StoreInit(<<Alice>>, <<ProjectRow("a", 1), ProjectRow("b", 1)>>, <<>>)
        /\ [][TaskNext]_vars

-----------------------------------------------------------------------------
(* Two users, each owning one project: every single-object request of both *)
(* users on goroutine 1, the owner's writes next to it on goroutine 2      *)

OwnerCalls ==
    {Call(op, h, p, EmptyJSON) :
        op \in {"GetProjectByID", "DeleteProject"}, h \in Logins, p \in 1..2}
    \cup
    {Call("UpdateProject", h, p, Named(n)) : h \in Logins, p \in 1..2, n \in {"c", ""}}
    \cup
    {Call("CreateTask", h, 0, Titled(t, p)) : h \in Logins, t \in {"t", ""}, p \in 1..2}
    \cup
    {Call(op, h, i, EmptyJSON) :
        op \in {"GetTaskByID", "DeleteTask"}, h \in Logins, i \in 1..MaxTasks}
    \cup
    {Call("UpdateTask", h, i, Titled(t, p)) :
        h \in Logins, i \in 1..MaxTasks, t \in {"t", ""}, p \in 1..2}

RivalCalls ==
    {Call("CreateTask", Bearer("tok1"), 0, Titled("t", 1)),
     Call("DeleteTask", Bearer("tok1"), 1, EmptyJSON),
     Call("DeleteProject", Bearer("tok1"), 1, EmptyJSON)}

OwnerNext ==
    \/ Arrive(1, OwnerCalls)
    \/ Arrive(2, RivalCalls)
    \/ \E g \in Goroutines :
          \/ GetProjectByID(g)
          \/ UpdateProject(g)
          \/ UpdateProject_First(g)
          \/ UpdateProject_Save(g)
          \/ DeleteProject(g)
          \/ DeleteProject_Count(g)
          \/ DeleteProject_Delete(g)
          \/ GetTaskByID(g)
          \/ TaskHandlers(g)
          \/ Finish(g)

OwnerSpec ==
    StoreInit(<<Alice, Bob>>, <<ProjectRow("a", 1), ProjectRow("b", 2)>>, <<>>)
        /\ [][OwnerNext]_vars

-----------------------------------------------------------------------------
(* Register and UpdateCurrentUser, served concurrently from an empty table *)

Emails == {E_alice, E_bob}

Registration(name, email, password) ==
    [EmptyJSON EXCEPT !.name = name, !.email = email, !.password = password]

Profile(name, email) == [EmptyJSON EXCEPT !.name = name, !.email = email]

UserCalls ==
    {Call("Register", <<>>, 0, Registration("n", e, PW_good)) : e \in Emails}
    \cup
    {Call("Register", <<>>, 0, Registration("n", E_bad, PW_good)),
     Call("Register", <<>>, 0, Registration("n", E_bob, PW_short)),
     Call("Register", <<>>, 0, Registration("", E_bob, PW_good))}
    \cup
    {Call("UpdateCurrentUser", h, 0, Profile("n", e)) : h \in Logins, e \in Emails \cup {E_bad}}

UserNext ==
    \E g \in Goroutines :
        \/ Arrive(g, UserCalls)
        \/ UserHandlers(g)
        \/ Finish(g)

UserSpec == StoreInit(<<>>, <<>>, <<>>) /\ [][UserNext]_vars

-----------------------------------------------------------------------------
(* The protected groups under every kind of Authorization header *)

AuthHeaders ==
    {<<>>,
     Bearer("tok1"), Bearer("tok2"), Bearer("tokS"), Bearer("expired"),
     <<"Bearer">>, <<"Bearer", " ">>, <<"tok1">>,
     <<"Bearer", " ", " ", "tok1">>, <<"Bearer", " ", "tok1", " ">>,
     <<" ", "Bearer", " ", "tok1">>,
     <<"bearer", " ", "tok1">>, <<"Basic", " ", "tok1">>,
     <<"Bearer", " ", "tok1", " ", "tok2">>}

AuthCalls ==
    {Call(op, h, 1, EmptyJSON) : op \in {"GetProjectByID", "DeleteProject"}, h \in AuthHeaders}
    \cup
    {Call("UpdateProject", h, 1, Named("c")) : h \in AuthHeaders}
    \cup
    {Call("CreateTask", h, 0, Titled("t", 1)) : h \in AuthHeaders}
    \cup
    {Call("UpdateCurrentUser", h, 0, Profile("n", E_alice)) : h \in AuthHeaders}

AuthNext ==
    \/ Arrive(1, AuthCalls)
    \/ \E g \in Goroutines :
          \/ GetProjectByID(g)
          \/ UpdateProject(g)
          \/ UpdateProject_First(g)
          \/ UpdateProject_Save(g)
          \/ DeleteProject(g)
          \/ DeleteProject_Count(g)
          \/ DeleteProject_Delete(g)
          \/ CreateTask(g)
          \/ CreateTask_Create(g)
          \/ UpdateCurrentUser(g)
          \/ UpdateCurrentUser_First(g)
          \/ UpdateCurrentUser_Save(g)
          \/ Finish(g)

AuthSpec ==
    StoreInit(<<Alice, Bob>>, <<ProjectRow("a", 1), ProjectRow("b", 2)>>, <<>>)
        /\ [][AuthNext]_vars

-----------------------------------------------------------------------------
(* CreateTask and UpdateTask under every value of the optional fields *)

\* one optional field at a time on the caller's own project, and every
\* bad value once more on somebody else's project
FieldBodies ==
    {[Titled("t", 1) EXCEPT !.status = v] : v \in {"", "Done", "done"}}
    \cup {[Titled("t", 1) EXCEPT !.priority = v] : v \in {"High", "Critical"}}
    \cup {[Titled("t", 1) EXCEPT !.estimate = v] : v \in {"XL", "XXL"}}
    \cup {[Titled("t", 1) EXCEPT !.due_date = v] : v \in {D_jan31, D_feb30, D_short, D_slash}}
    \cup {[Titled("t", 2) EXCEPT !.status = "done"],
          [Titled("t", 2) EXCEPT !.priority = "Critical"],
          [Titled("t", 2) EXCEPT !.estimate = "XXL"],
          [Titled("t", 2) EXCEPT !.due_date = D_slash],
          [Titled("t", 1) EXCEPT !.title = "", !.status = "done"]}

FieldCalls ==
    {Call("CreateTask", Bearer("tok1"), 0, b) : b \in FieldBodies}
    \cup
    {Call("UpdateTask", Bearer("tok1"), i, b) : i \in 1..MaxTasks, b \in FieldBodies}

FieldNext ==
    \/ Arrive(1, FieldCalls)
    \/ \E g \in Goroutines :
          \/ CreateTask(g)
          \/ CreateTask_Create(g)
          \/ UpdateTask(g)
          \/ UpdateTask_First(g)
          \/ UpdateTask_Save(g)
          \/ Finish(g)

FieldSpec ==
    StoreInit(<<Alice, Bob>>, <<ProjectRow("a", 1), ProjectRow("b", 2)>>, <<>>)
        /\ [][FieldNext]_vars

-----------------------------------------------------------------------------
(* The gateway serving several requests at once: net/http runs every       *)
(* request on its own goroutine, and a handler's variables (target, proxy, *)
(* the probe results) are locals of that invocation.                       *)

requestVars == <<pc, request, handler, target, outreq, answer, response, probes>>

\* a proxy kept where every invocation finds it: the one of some request
\* that is being forwarded
proxyOf_Shared(g) ==
    conns[CHOOSE h \in Goroutines : conns[h].pc = "forwarding"].target

\* proxy := httputil.NewSingleHostReverseProxy(target), with its Director
\* and ErrorHandler closures: built by the invocation that uses it
proxyOf(g) == conns[g].target

\* the engine runs the handler of a request on goroutine g
Serve(g, reqs) ==
    /\ conns[g].pc = "idle"
    /\ \E req \in reqs :
          LET served == EngineServe(req)
          IN  conns' = [conns EXCEPT ![g] =
                           [NoConn EXCEPT !.pc = served.pc, !.request = req,
                                          !.handler = served.handler,
                                          !.target = served.target,
                                          !.outreq = served.outreq,
                                          !.response = served.response]]
    /\ UNCHANGED requestVars
    /\ UNCHANGED configVars
    /\ UNCHANGED storeVars
    /\ UNCHANGED mailVars

\* transport.RoundTrip of g's proxy returned a response
RoundTripReturns(g) ==
    /\ conns[g].pc = "forwarding"
    /\ \E ans \in BackendResponses :
          conns' = [conns EXCEPT ![g].answer = ans, ![g].response = Relay(ans),
                                 ![g].pc = "done"]
    /\ UNCHANGED requestVars
    /\ UNCHANGED configVars
    /\ UNCHANGED storeVars
    /\ UNCHANGED mailVars

\* transport.RoundTrip of g's proxy returned an error
RoundTripFails(g) ==
    /\ conns[g].pc = "forwarding"
    /\ \E ans \in BackendFailures :
          conns' = [conns EXCEPT ![g].answer = ans,
                                 ![g].response = ErrorHandler(proxyOf(g), ans.err),
                                 ![g].pc = "done"]
    /\ UNCHANGED requestVars
    /\ UNCHANGED configVars
    /\ UNCHANGED storeVars
    /\ UNCHANGED mailVars

\* one http.Get of g's HealthCheck returns
ProbeReturns(g) ==
    /\ conns[g].pc = "probing"
    /\ \E res \in GetResults(baseURL[ProbeOrder(rev)[Len(conns[g].probes) + 1]]) :
          LET results == Append(conns[g].probes, res)
          IN  conns' = IF Len(results) = Len(ProbeOrder(rev))
                       THEN [conns EXCEPT ![g].probes = results, ![g].pc = "done",
                                          ![g].response = HealthReport(rev, baseURL, results)]
                       ELSE [conns EXCEPT ![g].probes = results]
    /\ UNCHANGED requestVars
    /\ UNCHANGED configVars
    /\ UNCHANGED storeVars
    /\ UNCHANGED mailVars

\* the server probed by g's HealthCheck accepted the connection and never
\* answers: http.DefaultClient has no timeout and the goroutine stays there
ProbeUnanswered(g) ==
    /\ conns[g].pc = "probing"
    /\ ~DefaultClientHasTimeout
    /\ ~urlParse(baseURL[ProbeOrder(rev)[Len(conns[g].probes) + 1]]).err
    /\ conns' = [conns EXCEPT ![g].pc = "blocked"]
    /\ UNCHANGED requestVars
    /\ UNCHANGED configVars
    /\ UNCHANGED storeVars
    /\ UNCHANGED mailVars

\* the response is written and the goroutine serves the next request
Served(g) ==
    /\ conns[g].pc = "done"
    /\ conns' = [conns EXCEPT ![g] = NoConn]
    /\ UNCHANGED requestVars
    /\ UNCHANGED configVars
    /\ UNCHANGED storeVars
    /\ UNCHANGED mailVars

\* one request per route, one unrouted path and the health endpoint
ConcurrentRequests ==
    {Inbound("GET", stem \o <<"/", "x">>, "", "", PlainHeader) :
        stem \in {P_auth, P_projects, P_tasks, P_users}}
    \cup {Inbound("GET", P_health, "", "", PlainHeader)}

\* the defaults, one override and one URL that does not parse
ConcurrentEnvs ==
    {e \in EnvChoices : e["MONOLITH_URL"] = "" /\ e["TASK_SERVICE_URL"] = ""
                        /\ e["AUTH_SERVICE_URL"] \in {"", OverrideURL}
                        /\ e["PROJECT_SERVICE_URL"] \in {"", BadURL}}

ConcurrentInit ==
    /\ rev \in {"fallback", "pure"}
    /\ env \in ConcurrentEnvs
    /\ rev = "fallback" => env = [k \in EnvKeys |-> ""]
    /\ baseURL = [b \in Backends |-> PackageURL(rev, env, b)]
    /\ IdleGateway
    /\ rsuffix = <<>>
    /\ decided = [s \in Stems |-> Undecided]
    /\ IdleStore

ConcurrentNext ==
    \E g \in Goroutines :
        \/ Serve(g, ConcurrentRequests)
        \/ RoundTripReturns(g)
        \/ RoundTripFails(g)
        \/ ProbeReturns(g)
        \/ ProbeUnanswered(g)
        \/ Served(g)

ConcurrentSpec == ConcurrentInit /\ [][ConcurrentNext]_vars

-----------------------------------------------------------------------------
(* Login next to Register: known and unknown addresses, right, wrong and   *)
(* too short passwords                                                      *)

Credentials(email, password) ==
    [EmptyJSON EXCEPT !.email = email, !.password = password]

LoginCalls ==
    {Call("Login", <<>>, 0, Credentials(e, pw)) :
        e \in {E_alice, E_bob, E_bad}, pw \in {PW_good, PW_other, PW_short}}
    \cup
    {Call("Register", <<>>, 0, Registration("n", E_bob, PW_other))}

LoginNext ==
    \E g \in Goroutines :
        \/ Arrive(g, LoginCalls)
        \/ Login(g)
        \/ Register(g)
        \/ Register_Create(g)
        \/ Finish(g)

LoginSpec == StoreInit(<<Alice>>, <<>>, <<>>) /\ [][LoginNext]_vars

-----------------------------------------------------------------------------
(* DeleteProject and CreateTask on a database whose Count can fail: one    *)
(* user with two projects, the first holding a task                        *)

FaultCalls ==
    {Call("DeleteProject", Bearer("tok1"), p, EmptyJSON) : p \in 1..2}
    \cup
    {Call("CreateTask", Bearer("tok1"), 0, Titled("t", p)) : p \in 1..2}
    \cup
    {Call("DeleteTask", Bearer("tok1"), i, EmptyJSON) : i \in 1..MaxTasks}

FaultNext ==
    \E g \in Goroutines :
        \/ Arrive(g, FaultCalls)
        \/ DeleteProject(g)
        \/ DeleteProject_Count(g)
        \/ DeleteProject_CountFails(g)
        \/ DeleteProject_Delete(g)
        \/ CreateTask(g)
        \/ CreateTask_Create(g)
        \/ DeleteTask(g)
        \/ DeleteTask_Delete(g)
        \/ Finish(g)

FaultSpec ==
    StoreInit(<<Alice>>, <<ProjectRow("a", 1), ProjectRow("b", 1)>>,
              <<TaskRow("t", 1, 1, "Not Started", "", "", <<>>)>>)
    /\ [][FaultNext]_vars

-----------------------------------------------------------------------------
(* The monolith: the task handlers with their notification goroutines and  *)
(* the email service.  CreateTask, UpdateTask up to its Save, and          *)
(* DeleteTask are the statements of the task service, line for line; the   *)
(* two writes are followed by go func() { ... }().                         *)

\* notification goroutines that exist at once
MaxMails == 2

\* what one go func() closure holds: the handler's task struct, userID and,
\* for an update, the values read from the struct before it was assigned
\* to (the closure keeps originalTitle, originalStatus, originalPriority and
\* originalEstimate; the whole loaded row is kept here and only these four
\* are read)
Notification(kind, user, id, task, original) ==
    [kind |-> kind, user_id |-> user, task_id |-> id, task |-> task,
     original |-> original, pc |-> "spawned", to |-> <<>>, changes |-> <<>>,
     html |-> <<>>, result |-> "", attempts |-> 0]

ChangeDetail(field, from, to) == [Field |-> field, From |-> from, To |-> to]

\* the four comparisons of UpdateTask's goroutine, in their order
Changes(original, task) ==
    LET changed(field, from, to) ==
            IF from # to THEN <<ChangeDetail(field, from, to)>> ELSE <<>>
    IN  changed("Title", original.title, task.title)
        \o changed("Status", original.status, task.status)
        \o changed("Priority", original.priority, task.priority)
        \o changed("Estimate", original.estimate, task.estimate)

getDisplayValue(value, fallback) == IF value = "" THEN fallback ELSE value

\* one line per change, "<Field> changed from <From> to <To>"
getChangesHTML(changes) ==
    IF Len(changes) = 0 THEN <<<<"Task details updated">>>>
    ELSE [i \in 1..Len(changes) |->
            <<changes[i].Field, getDisplayValue(changes[i].From, "empty"),
              getDisplayValue(changes[i].To, "empty")>>]

\* a CreateTask that sends the notification before it answers
monolith_CreateTask_Create_Sync(g) ==
    LET c == calls[g]
        b == c.body
        task == TaskRow(b.title, b.project_id, c.user_id,
                        IF b.status = "" THEN "Not Started" ELSE b.status,
                        b.priority, b.estimate, b.due_date)
    IN  /\ c.pc = "CreateTask.Create"
        /\ tasks' = Append(tasks, task)
        /\ mails' = Append(mails, Notification("created", c.user_id, Len(tasks) + 1,
                                               task, NoTask))
        /\ calls' = [calls EXCEPT ![g] =
                        [c EXCEPT !.pc = "CreateTask.Notify",
                                  !.created = Len(tasks) + 1, !.task = task]]
        /\ UNCHANGED <<users, projects, emailService>>
        /\ UNCHANGED configVars
        /\ UNCHANGED gatewayVars

\* monolith CreateTask from DB.Create on: the insert, go func(), the 201
monolith_CreateTask_Create(g) ==
    LET c == calls[g]
        b == c.body
        task == TaskRow(b.title, b.project_id, c.user_id,
                        IF b.status = "" THEN "Not Started" ELSE b.status,
                        b.priority, b.estimate, b.due_date)
    IN  /\ c.pc = "CreateTask.Create"
        /\ tasks' = Append(tasks, task)
        /\ mails' = Append(mails, Notification("created", c.user_id, Len(tasks) + 1,
                                               task, NoTask))
        /\ calls' = [calls EXCEPT ![g] =
                        Replied([c EXCEPT !.created = Len(tasks) + 1, !.task = task],
                                StatusCreated)]
        /\ UNCHANGED <<users, projects, emailService>>
        /\ UNCHANGED configVars
        /\ UNCHANGED gatewayVars

\* an UpdateTask that leaves the status alone when the body has none
monolith_UpdateTask_Save_KeepsStatus(g) ==
    LET c == calls[g]
        b == c.body
        status == IF b.status = "" THEN c.task.status ELSE b.status
        task == [Assigned(c.task, b) EXCEPT !.status = status]
    IN  /\ c.pc = "UpdateTask.Save"
        /\ \E pid \in SavedProjectIDs(c) :
              tasks' = IF tasks[c.id].deleted THEN tasks
                       ELSE [tasks EXCEPT ![c.id] =
                                [@ EXCEPT !.title = b.title, !.project_id = pid,
                                          !.status = status, !.priority = b.priority,
                                          !.estimate = b.estimate, !.due_date = b.due_date]]
        /\ mails' = Append(mails, Notification("updated", c.user_id, c.id, task, c.task))
        /\ calls' = [calls EXCEPT ![g] = Replied([c EXCEPT !.task = task], StatusOK)]
        /\ UNCHANGED <<users, projects, emailService>>
        /\ UNCHANGED configVars
        /\ UNCHANGED gatewayVars

\* monolith UpdateTask from the original... reads on: the assignments,
\* DB.Save, go func(), the 200
monolith_UpdateTask_Save(g) ==
    LET c == calls[g]
        b == c.body
        original == c.task
        task == [original EXCEPT !.title = b.title, !.project_id = b.project_id,
                                 !.status = b.status, !.priority = b.priority,
                                 !.estimate = b.estimate, !.due_date = b.due_date]
    IN  /\ c.pc = "UpdateTask.Save"
        /\ \E pid \in SavedProjectIDs(c) :
              tasks' = IF tasks[c.id].deleted THEN tasks
                       ELSE [tasks EXCEPT ![c.id] =
                                [@ EXCEPT !.title = b.title, !.project_id = pid,
                                          !.status = b.status, !.priority = b.priority,
                                          !.estimate = b.estimate, !.due_date = b.due_date]]
        /\ mails' = Append(mails, Notification("updated", c.user_id, c.id, task, original))
        /\ calls' = [calls EXCEPT ![g] = Replied([c EXCEPT !.task = task], StatusOK)]
        /\ UNCHANGED <<users, projects, emailService>>
        /\ UNCHANGED configVars
        /\ UNCHANGED gatewayVars

\* what is left of n once its message went to smtp.SendMail: nothing reads
\* the closure's task values any more
Composed(n) == [n EXCEPT !.task = NoTask, !.original = NoTask]

\* the goroutine's DB.First(&user, userID); when it finds the user the
\* change list and the message are built and sendEmail is entered
Notify_First(m) ==
    LET n == mails[m]
        changes == IF n.kind = "updated" THEN Changes(n.original, n.task) ELSE <<>>
    IN  /\ n.pc = "spawned"
        /\ mails' = [mails EXCEPT ![m] =
                        IF n.user_id \in 1..Len(users)
                        THEN [n EXCEPT !.pc = "sending",
                                       !.to = users[n.user_id].email,
                                       !.changes = changes,
                                       !.html = IF n.kind = "updated"
                                                THEN getChangesHTML(changes) ELSE <<>>]
                        ELSE [n EXCEPT !.pc = "returning", !.result = "no user"]]
        /\ UNCHANGED emailService
        /\ UNCHANGED storeVars
        /\ UNCHANGED configVars
        /\ UNCHANGED gatewayVars

\* sendEmail returns: at once when SMTP is not configured, else with what
\* smtp.SendMail returned; the notification function logs an error and
\* returns
sendEmail(m) ==
    LET n == mails[m]
    IN  /\ n.pc = "sending"
        /\ \E err \in {"", "smtp: send failed"} :
              mails' = [mails EXCEPT ![m] =
                           IF ~emailService.SMTPConfigured
                           THEN [Composed(n) EXCEPT !.pc = "returning",
                                                    !.result = "not configured"]
                           ELSE [Composed(n) EXCEPT
                                    !.pc = "returning",
                                    !.attempts = n.attempts + 1,
                                    !.result = IF err = "" THEN "sent" ELSE "error"]]
        /\ UNCHANGED emailService
        /\ UNCHANGED storeVars
        /\ UNCHANGED configVars
        /\ UNCHANGED gatewayVars

\* smtp.SendMail has no deadline: a server that stops answering keeps the
\* goroutine in it
sendEmail_Hangs(m) ==
    LET n == mails[m]
    IN  /\ n.pc = "sending"
        /\ emailService.SMTPConfigured
        /\ mails' = [mails EXCEPT ![m] =
                        [Composed(n) EXCEPT !.pc = "stuck", !.attempts = n.attempts + 1]]
        /\ UNCHANGED emailService
        /\ UNCHANGED storeVars
        /\ UNCHANGED configVars
        /\ UNCHANGED gatewayVars

\* the goroutine's function returns and the goroutine is gone
Notify_Returns(m) ==
    /\ mails[m].pc = "returning"
    /\ mails' = [i \in 1..(Len(mails) - 1) |-> IF i < m THEN mails[i] ELSE mails[i + 1]]
    /\ UNCHANGED emailService
    /\ UNCHANGED storeVars
    /\ UNCHANGED configVars
    /\ UNCHANGED gatewayVars

\* a write is admitted only while there is room for its goroutine
Enter(g, reqs) ==
    /\ Len(mails) < MaxMails
    /\ Arrive(g, reqs)

\* one field of the stored task changed at a time, and nothing changed
MonolithBodies ==
    {Titled("t", 1), Titled("t", 2),
     [Titled("t", 1) EXCEPT !.status = "Done"],
     [Titled("t", 1) EXCEPT !.due_date = D_jan31]}

MonolithCalls ==
    {Call("CreateTask", Bearer("tok1"), 0, Titled("t", 1))}
    \cup
    {Call("UpdateTask", Bearer("tok1"), 1, b) : b \in MonolithBodies}

\* requests that spawn nothing
MonolithDeletes ==
    {Call("DeleteTask", Bearer("tok1"), 1, EmptyJSON)}

\* one user with two projects and a task, SMTP configured or not
MonolithInit ==
    /\ rev = "fallback"
    /\ env = [k \in EnvKeys |-> ""]
    /\ baseURL = [b \in Backends |-> PackageURL(rev, env, b)]
    /\ IdleGateway
    /\ rsuffix = <<>>
    /\ decided = [s \in Stems |-> Undecided]
    /\ users = <<Alice>>
    /\ projects = <<ProjectRow("a", 1), ProjectRow("b", 1)>>
    /\ tasks = <<TaskRow("t", 1, 1, "Not Started", "", "", <<>>)>>
    /\ calls = [g \in Goroutines |-> NoCall]
    /\ emailService \in {NewEmailService(FALSE), NewEmailService(TRUE)}
    /\ mails = <<>>

MonolithNext ==
    \/ Enter(1, MonolithCalls)
    \/ Arrive(1, MonolithDeletes)
    \/ CreateTask(1)
    \/ monolith_CreateTask_Create(1)
    \/ UpdateTask(1)
    \/ UpdateTask_First(1)
    \/ monolith_UpdateTask_Save(1)
    \/ DeleteTask(1)
    \/ DeleteTask_Delete(1)
    \/ Finish(1)
    \/ \E m \in 1..Len(mails) :
          \/ Notify_First(m)
          \/ sendEmail(m)
          \/ sendEmail_Hangs(m)
          \/ Notify_Returns(m)

MonolithSpec == MonolithInit /\ [][MonolithNext]_vars

-----------------------------------------------------------------------------
(* Claims about the router (RouteSpec) *)

L_auth_slash == <<"/", "a", "u", "t", "h", "/">>
L_auth       == <<"/", "a", "u", "t", "h">>
L_projects   == <<"/", "p", "r", "o", "j", "e", "c", "t", "s">>
L_tasks      == <<"/", "t", "a", "s", "k", "s">>

\* C1: for every path SmartProxy handles, in both revisions, a path that
\* starts with /auth/ is dispatched to the auth backend, one that starts with
\* /projects to the project backend and one that starts with /tasks to the
\* task backend, and one of these backends is selected only for a path that
\* starts with its prefix.
C1_RoutesByPrefix ==
    \A stem \in Stems :
        decided[stem] # Undecided =>
            LET p == stem \o rsuffix
            IN  /\ (decided[stem] = "auth")    <=> HasPrefix(p, L_auth_slash)
                /\ (decided[stem] = "project") <=> HasPrefix(p, L_projects)
                /\ (decided[stem] = "task")    <=> HasPrefix(p, L_tasks)

C1_Witness ==
    /\ rsuffix = <<"/", "x">>
    /\ decided[P_auth] = "auth"
    /\ decided[P_projects] = "project"
    /\ decided[P_tasks] = "task"
    /\ decided[P_users] \notin {Undecided, "auth", "project", "task"}

-----------------------------------------------------------------------------
(* Claims about the forwarder (Spec) *)

Forwarded == outreq # NoRequest

TargetURL == urlParse(baseURL[target])

Relayed == pc = "done" /\ answer.kind = "response"

Range(seq) == {seq[i] : i \in 1..Len(seq)}

BackendLabel ==
    [b \in Backends |->
        CASE b = "monolith" -> "Monolith"
          [] b = "auth"     -> "Auth"
          [] b = "project"  -> "Project"
          [] b = "task"     -> "Task"]

\* C4: when the connection to the selected backend fails, whatever the
\* transport error, the caller receives exactly 502 with an error text that
\* names the selected backend and no other, and the transport error is not
\* in the response.
C4_BadGatewayNamesBackend ==
    (pc = "done" /\ answer.kind = "error") =>
        /\ response.status = 502
        /\ target \in Backends
        /\ \A b \in Backends :
              (BackendLabel[b] \in Range(response.body.error)) <=> (b = target)
        /\ answer.err \notin Range(response.body.error)
        /\ response.body.raw = ""

C4_Witness ==
    /\ pc = "done"
    /\ answer.kind = "error"
    /\ answer.err = "i/o timeout"
    /\ target = "task"
    /\ response.status = 502

-----------------------------------------------------------------------------
(* Claims about the health aggregator *)

Reported == pc = "done" /\ handler = "HealthCheck"

StatusOfProbe(i) == response.body.report.status[ProbeOrder(rev)[i]]

\* C5: in the health report each backend's status is healthy exactly when
\* its probe returned HTTP 200, unhealthy exactly when it returned another
\* status code and unreachable exactly when it returned an error, whatever
\* the other probes returned.
C5_StatusPerProbe ==
    Reported =>
        /\ Len(probes) = Len(ProbeOrder(rev))
        /\ \A i \in 1..Len(probes) :
              /\ (StatusOfProbe(i) = "healthy")
                    <=> (probes[i].err = "" /\ probes[i].StatusCode = 200)
              /\ (StatusOfProbe(i) = "unhealthy")
                    <=> (probes[i].err = "" /\ probes[i].StatusCode # 200)
              /\ (StatusOfProbe(i) = "unreachable")
                    <=> (probes[i].err # "")

\* auth answers 200, project answers 500, the task probe times out
C5_Witness ==
    /\ Reported
    /\ rev = "pure"
    /\ probes[1] = [err |-> "", StatusCode |-> 200]
    /\ probes[2] = [err |-> "", StatusCode |-> 500]
    /\ probes[3].err = "i/o timeout"
    /\ response.body.report.status["auth"] = "healthy"
    /\ response.body.report.status["project"] = "unhealthy"
    /\ response.body.report.status["task"] = "unreachable"

\* C6: every answer of the health endpoint is HTTP 200 with gateway_status
\* healthy, for every combination of probe outcomes, all backends
\* unreachable included.
C6_HealthAlways200 ==
    Reported =>
        /\ response.status = 200
        /\ response.body.report.gateway_status = "healthy"

C6_Witness ==
    /\ Reported
    /\ rev = "fallback"
    /\ \A i \in 1..Len(probes) : probes[i].err # ""
    /\ \A b \in Backends : response.body.report.status[b] = "unreachable"
    /\ response.status = 200

\* C7: every invocation of the health endpoint eventually responds, also
\* when a backend accepts the connection and never answers.
C7_HealthEventuallyResponds ==
    (pc = "probing") ~> (pc = "done")

-----------------------------------------------------------------------------
(* Claims about unmatched paths (Spec) *)

Answered == pc \in {"forwarding", "done"}

Unmatched(path) ==
    /\ ~HasPrefix(path, L_auth)
    /\ ~HasPrefix(path, L_projects)
    /\ ~HasPrefix(path, L_tasks)
    /\ ~HasPrefix(path, P_health)

\* C8: with the monolith fallback, a request for a path under /users/ (any
\* path not under /auth, /projects or /tasks, /gateway/health apart) is
\* forwarded to the monolith.
C8_UnmatchedToMonolith ==
    (rev = "fallback" /\ Answered /\ Unmatched(request.Path)) =>
        /\ target = "monolith"
        /\ Forwarded
        /\ outreq.URLHost = "localhost:8080"

\* C9: without the monolith fallback, a request for a path that matches no
\* route prefix is answered 404 with a JSON body that lists the available
\* route prefixes.
C9_UnmatchedIs404WithRoutes ==
    (rev = "pure" /\ Answered /\ Unmatched(request.Path)) =>
        /\ pc = "done"
        /\ response.status = 404
        /\ response.header["Content-Type"] = <<"application/json; charset=utf-8">>
        /\ response.body.available_routes =
              <<"/auth/*", "/projects/*", "/tasks/*", "/gateway/health">>

-----------------------------------------------------------------------------
(* Claims about configuration errors and outbound attempts (Spec) *)

\* the configuration with every unparsable URL replaced by the default
ValidatedURL(b) == IF urlParse(baseURL[b]).err THEN DefaultURL(b) ELSE baseURL[b]

\* C18: when the base URL of a backend does not parse, every request routed
\* to that backend is answered 500 "Gateway configuration error" and nothing
\* is sent; a request routed to a backend whose URL parses is forwarded to
\* that URL and answered from the backend's answer alone, whatever the URLs
\* of the other backends are.
C18_ConfigurationErrorIsPerBackend ==
    (handler = "SmartProxy" /\ target \in Backends) =>
        IF urlParse(baseURL[target]).err
        THEN /\ pc = "done"
             /\ response.status = 500
             /\ response.body.error = <<"Gateway", "configuration", "error">>
             /\ outreq = NoRequest
             /\ answer = NoAnswer
        ELSE /\ outreq.URLHost = urlParse(ValidatedURL(target)).Host
             /\ outreq.Path = request.Path
             /\ response.body.error # <<"Gateway", "configuration", "error">>
             /\ pc = "forwarding" => response = NoResponse
             /\ (pc = "done" /\ answer.kind = "response") => response.status = answer.status
             /\ (pc = "done" /\ answer.kind = "error") => response.status = 502

\* PROJECT_SERVICE_URL is ":9000" and a request for /projects/x arrived
C18_Witness ==
    /\ rev = "pure"
    /\ baseURL["project"] = BadURL
    /\ handler = "SmartProxy"
    /\ target = "project"
    /\ request.Path = P_projects \o <<"/", "x">>
    /\ pc = "done"
    /\ response.status = 500

\* C19: an outbound request is made only when an inbound request arrives,
\* and to the backend routing selected; while the gateway waits for the
\* backend the next step is the answer to the caller, with the outbound
\* request and the target unchanged, and when the attempt failed that
\* answer is 502.
C19_SingleAttempt ==
    [][ /\ (outreq' # outreq /\ outreq' # NoRequest) =>
              /\ pc = "idle"
              /\ target' \in Backends
              /\ outreq'.URLHost = urlParse(baseURL[target']).Host
        /\ (pc = "forwarding") =>
              /\ pc' = "done"
              /\ outreq' = outreq
              /\ target' = target
              /\ request' = request
        /\ (pc = "forwarding" /\ answer'.kind = "error") =>
              response'.status = 502
        /\ (pc = "done") => (pc' = "idle" /\ outreq' = NoRequest) ]_vars

\* a POST to the task service was sent once and refused
C19_Witness ==
    /\ pc = "done"
    /\ request.Method = "POST"
    /\ target = "task"
    /\ outreq.URLHost = "localhost:8084"
    /\ answer.kind = "error"
    /\ answer.err = "connection refused"
    /\ response.status = 502

\* C20: the health handler has no response while a probe is outstanding,
\* and a response it wrote comes after all probes of the invocation and
\* has a status for every probed backend.
C20_ReportAfterAllProbes ==
    (handler = "HealthCheck") =>
        /\ (pc \in {"probing", "blocked"}) => response = NoResponse
        /\ (Len(probes) < Len(ProbeOrder(rev))) => response = NoResponse
        /\ (response # NoResponse) =>
              /\ Len(probes) = Len(ProbeOrder(rev))
              /\ \A i \in 1..Len(ProbeOrder(rev)) :
                    StatusOfProbe(i) \in {"healthy", "unhealthy", "unreachable"}

\* four probes answered, the last one after a refused connection earlier
C20_Witness ==
    /\ handler = "HealthCheck"
    /\ rev = "fallback"
    /\ Len(probes) = 4
    /\ probes[2].err = "connection refused"
    /\ response # NoResponse
    /\ response.body.report.status["task"] = "healthy"

-----------------------------------------------------------------------------
(* Claims about the stored projects, tasks and users *)

\* C11: no two projects that are not deleted have the same owner and the
\* same name, whatever CreateProject and UpdateProject requests were served
\* and however they interleaved.
C11_ProjectNamesUniquePerOwner ==
    \A i, j \in Live(projects) :
        (i # j /\ projects[i].owner_id = projects[j].owner_id)
            => projects[i].name # projects[j].name

\* C12: every task that is not deleted references a project that is not
\* deleted, whatever DeleteProject, CreateTask and UpdateTask requests were
\* served and however they interleaved.
C12_LiveTaskHasLiveProject ==
    \A t \in Live(tasks) : tasks[t].project_id \in Live(projects)

\* the request addresses a stored project or task of somebody else
Foreign(c) ==
    \/ /\ c.op \in {"GetProjectByID", "UpdateProject", "DeleteProject"}
       /\ c.id \in 1..Len(projects)
       /\ projects[c.id].owner_id # c.user_id
    \/ /\ c.op \in {"GetTaskByID", "UpdateTask", "DeleteTask"}
       /\ c.id \in 1..Len(tasks)
       /\ \/ tasks[c.id].assignee_id # c.user_id
          \/ projects[tasks[c.id].project_id].owner_id # c.user_id

NamesForeignProject(c) ==
    /\ c.op \in {"CreateTask", "UpdateTask"}
    /\ c.body.project_id \in 1..Len(projects)
    /\ projects[c.body.project_id].owner_id # c.user_id

TasksInOwnProjects ==
    \A t \in 1..Len(tasks) :
        /\ tasks[t].creator_id = tasks[t].assignee_id
        /\ projects[tasks[t].project_id].owner_id = tasks[t].creator_id

\* C16 as stated: every task's project is owned by the task's creator and
\* assignee, and every request naming somebody else's project is answered
\* 404.
C16_ForeignProjectIs404 ==
    /\ TasksInOwnProjects
    /\ \A g \in Goroutines :
          (NamesForeignProject(calls[g]) /\ calls[g].pc = "done")
              => calls[g].status = 404

\* C16: every task's project is owned by the task's creator and assignee;
\* a CreateTask or UpdateTask naming somebody else's project never reaches
\* its write and changes nothing, and is answered 404, or 400 when its
\* body does not bind.
C16_TasksStayInOwnProjects ==
    /\ [](/\ TasksInOwnProjects
          /\ \A g \in Goroutines :
                NamesForeignProject(calls[g]) =>
                    /\ calls[g].pc \in {calls[g].op, "UpdateTask.First", "done"}
                    /\ calls[g].pc = "done" => calls[g].status \in {404, 400}
                    /\ calls[g].status = 400 => bindTaskRequest(calls[g].body))
    /\ [][\A g \in Goroutines :
            (NamesForeignProject(calls[g]) /\ calls'[g] # calls[g])
                => (projects' = projects /\ tasks' = tasks)]_vars

\* Alice asked to move her task to Bob's project and was answered 404
C16_Witness ==
    /\ Len(tasks) >= 1
    /\ tasks[1].assignee_id = 1
    /\ tasks[1].project_id = 1
    /\ ~tasks[1].deleted
    /\ calls[1].op = "UpdateTask"
    /\ calls[1].user_id = 1
    /\ calls[1].id = 1
    /\ calls[1].body.project_id = 2
    /\ calls[1].pc = "done"
    /\ calls[1].status = 404

\* the users row a request writes: the one it created, or the caller's own
TargetUser(c) == IF c.op = "Register" THEN c.created ELSE c.user_id

Holders(email) == {i \in 1..Len(users) : users[i].email = email}

\* goroutine g ends a Register or UpdateCurrentUser with a success
Succeeds(g) ==
    /\ calls[g].op \in {"Register", "UpdateCurrentUser"}
    /\ calls[g].pc # "done"
    /\ calls'[g].pc = "done"
    /\ calls'[g].status \in {200, 201}

\* goroutine g runs the duplicate lookup while another row holds the email
LooksUpTakenEmail(g) ==
    /\ calls[g].pc \in {"Register", "UpdateCurrentUser"}
    /\ calls'[g] # calls[g]
    /\ IF calls[g].pc = "Register"
       THEN ~bindRegisterRequest(calls[g].body)
       ELSE ~bindUpdateUserRequest(calls[g].body)
    /\ Holders(calls[g].body.email) \ {calls[g].user_id} # {}

\* C14: no two users rows have the same email, in every state of every
\* interleaving; a Register or UpdateCurrentUser that finds the email in
\* another row is answered 409 and changes nothing; the table changes only
\* when a request succeeds, and when one succeeds its own row is the only
\* holder of the email, so two requests racing for one email do not both
\* succeed.
C14_EmailsUnique ==
    /\ [](\A i, j \in 1..Len(users) : users[i].email = users[j].email => i = j)
    /\ [][\A g \in Goroutines :
            /\ LooksUpTakenEmail(g) =>
                  (calls'[g].pc = "done" /\ calls'[g].status = 409 /\ users' = users)
            /\ Succeeds(g) =>
                  Holders(calls[g].body.email)' = {TargetUser(calls'[g])}
            /\ (calls'[g] # calls[g] /\ ~Succeeds(g)) => users' = users]_vars

\* two Register requests for one address raced: one created the row, the
\* other failed on the index
C14_Witness ==
    /\ calls[1].op = "Register"
    /\ calls[2].op = "Register"
    /\ calls[1].body.email = E_bob
    /\ calls[2].body.email = E_bob
    /\ calls[1].status = 201
    /\ calls[2].status = 500
    /\ Cardinality(Holders(E_bob)) = 1

-----------------------------------------------------------------------------
(* Claims about authentication and validation *)

\* the headers that are exactly "Bearer <token>" with a token that verifies
\* and carries a numeric user_id, and the user each of them names
GoodHeaders == {<<"Bearer", " ", "tok1">>, <<"Bearer", " ", "tok2">>}

UserOf(header) == IF header[3] = "tok1" THEN 1 ELSE 2

\* C15: a request to a protected group whose header is not a good one is
\* answered 401 by the middleware, its handler is never entered and it
\* changes nothing; a handler that runs, or has answered anything but 401,
\* runs for the user the token names.
C15_HandlersBehindRequireAuth ==
    /\ [](\A g \in Goroutines :
            (Protected(calls[g].op) /\ calls[g].pc # "idle") =>
                IF calls[g].header \in GoodHeaders
                THEN /\ calls[g].status # 401
                     /\ calls[g].user_id = UserOf(calls[g].header)
                ELSE /\ calls[g].pc = "done"
                     /\ calls[g].status = 401
                     /\ calls[g].user_id = 0)
    /\ [][\A g \in Goroutines :
            (calls'[g] # calls[g] /\ calls'[g].header \notin GoodHeaders)
                => (users' = users /\ projects' = projects /\ tasks' = tasks)]_vars

\* DELETE /projects/1 with two spaces after "Bearer" and a valid token
C15_Witness ==
    /\ calls[1].op = "DeleteProject"
    /\ calls[1].header = <<"Bearer", " ", " ", "tok1">>
    /\ calls[1].pc = "done"
    /\ calls[1].status = 401
    /\ ~projects[1].deleted

\* YYYY-MM-DD: ten characters, digits around two dashes
IsoForm(d) ==
    /\ Len(d) = 10
    /\ \A i \in 1..10 :
          IF i \in {5, 8} THEN d[i] = "-"
          ELSE d[i] \in {"0", "1", "2", "3", "4", "5", "6", "7", "8", "9"}

\* the request carries a value the README does not allow
OutsideAllowed(body) ==
    \/ body.status \notin {"", "Not Started", "In Progress", "Done", "Blocked"}
    \/ body.priority \notin {"", "Low", "Medium", "High", "Urgent"}
    \/ body.estimate \notin {"", "S", "M", "L", "XL"}
    \/ (body.due_date # <<>> /\ ~IsoForm(body.due_date))

InvalidTaskCall(c) == c.op \in {"CreateTask", "UpdateTask"} /\ OutsideAllowed(c.body)

OwnsProject(user, project) ==
    /\ project \in Live(projects)
    /\ projects[project].owner_id = user

-----------------------------------------------------------------------------
(* Claims about the registry and the health report *)

BackendsWith(field) == {b \in Backends : field[b] # ""}

\* C21: a health report has one status and one URL for every backend of the
\* registry (monolith, auth, project, task), the URL being the configured
\* one, and the backends with a status are the backends with a URL.
C21_ReportCoversRegistry ==
    (handler = "HealthCheck" /\ response # NoResponse) =>
        LET report == response.body.report
        IN  /\ BackendsWith(report.status) = Backends
            /\ \A b \in Backends : report.services[b] = baseURL[b]
            /\ BackendsWith(report.status) = BackendsWith(report.services)

\* C23: in every revision each backend base URL is the value of its
\* environment variable when that is set to a non-empty value, and the
\* built-in localhost default otherwise.
C23_BaseURLFromEnvironment ==
    \A b \in Backends :
        baseURL[b] = IF env[EnvKey(b)] # "" THEN env[EnvKey(b)] ELSE DefaultURL(b)

-----------------------------------------------------------------------------
(* Claims about the stored task fields *)

\* C28: every stored task has a status among Not Started, In Progress, Done
\* and Blocked, never an empty one, and a priority and an estimate that are
\* each empty or in their allowed set.
C28_StoredFieldsAllowed ==
    \A i \in Live(tasks) :
        /\ isValidStatus(tasks[i].status)
        /\ tasks[i].priority = "" \/ isValidPriority(tasks[i].priority)
        /\ tasks[i].estimate = "" \/ isValidEstimate(tasks[i].estimate)

-----------------------------------------------------------------------------
(* Claims about concurrent gateway requests (ConcurrentSpec) *)

\* what the handler state of one request is, computed from that request,
\* the answers it received and the registry alone
OwnOutcome(k) ==
    LET served == EngineServe(k.request)
    IN  /\ k.handler = served.handler
        /\ k.target = served.target
        /\ k.outreq = served.outreq
        /\ k.pc \in {"forwarding", "probing", "blocked"} => k.response = NoResponse
        /\ k.pc = "done" =>
              k.response =
                 CASE k.answer.kind = "response" -> Relay(k.answer)
                   [] k.answer.kind = "error" -> ErrorHandler(served.target, k.answer.err)
                   [] k.handler = "HealthCheck" -> HealthReport(rev, baseURL, k.probes)
                   [] OTHER -> served.response

\* C22: the base URLs never change after start, a step of one request
\* changes the state of no other request, and in every interleaving the
\* routing decision and the response of a request are those computed from
\* the request itself and the answers of its own backends.
C22_RequestsAreIndependent ==
    /\ [](\A g \in Goroutines : conns[g].pc # "idle" => OwnOutcome(conns[g]))
    /\ [][/\ baseURL' = baseURL
          /\ \A g, h \in Goroutines :
                (g # h /\ conns'[g] # conns[g]) => conns'[h] = conns[h]]_vars

\* a request for the task service was refused while a health check was
\* between two probes and had seen the auth service down
C22_Witness ==
    /\ conns[1].handler = "HealthCheck"
    /\ conns[1].pc = "probing"
    /\ Len(conns[1].probes) = 1
    /\ conns[1].probes[1].err = "connection refused"
    /\ conns[2].pc = "done"
    /\ conns[2].target = "task"
    /\ conns[2].answer.kind = "error"
    /\ conns[2].response.status = 502

-----------------------------------------------------------------------------
(* Claims about Login (LoginSpec) *)

\* the request binds and its credentials are not those of a stored user
InvalidCredentials(c) ==
    /\ ~bindLoginRequest(c.body)
    /\ \A i \in 1..Len(users) :
          users[i].email = c.body.email => ~CheckPassword(c.body.password, users[i].password)

\* C27: a Login whose body is well formed and whose email is unknown or
\* whose password is wrong is answered 401, and a Login answered 400 had a
\* malformed body.
C27_InvalidCredentialsAre401 ==
    \A g \in Goroutines :
        (calls[g].op = "Login" /\ calls[g].pc = "done") =>
            /\ InvalidCredentials(calls[g]) => calls[g].status = StatusUnauthorized
            /\ calls[g].status = StatusBadRequest => bindLoginRequest(calls[g].body)

-----------------------------------------------------------------------------
(* Claims about DeleteProject under database errors (FaultSpec) *)

\* C30: a DeleteProject that deleted the project had counted its tasks with
\* a query that succeeded; after a count that failed the project is not
\* deleted.
C30_DeleteOnlyAfterCount ==
    \A g \in Goroutines :
        (calls[g].op = "DeleteProject" /\ calls[g].pc = "done" /\ calls[g].status = StatusOK)
            => ~calls[g].count_err

-----------------------------------------------------------------------------
(* Claims about the monolith and its notifications (MonolithSpec) *)

\* C24: every step the monolith's CreateTask and UpdateTask take at their
\* write is the step the task service's handler of the same name takes from
\* the same state on the same request: the same rows written, the same
\* status and the same task in the response; only the notification
\* goroutine is added.  (The other statements of the project and task
\* handlers are the service's, line for line, and are the same actions.)
C24_MonolithStepsAreServiceSteps ==
    [][\A g \in Goroutines :
          /\ monolith_CreateTask_Create(g) => CreateTask_Insert(g)
          /\ monolith_UpdateTask_Save(g) => UpdateTask_Write(g)]_vars

\* the monolith saved an update that set the status to Done and answered
\* 200 with the saved task
C24_Witness ==
    /\ calls[1].op = "UpdateTask"
    /\ calls[1].pc = "done"
    /\ calls[1].status = StatusOK
    /\ calls[1].task.status = "Done"
    /\ tasks[1].status = "Done"
    /\ Len(mails) > 0
    /\ mails[Len(mails)].kind = "updated"

\* C25: a notification goroutine that comes back from sendEmail with an
\* error has called smtp.SendMail more than once.
C25_FailedSendIsRetried ==
    \A m \in 1..Len(mails) :
        (mails[m].pc = "returning" /\ mails[m].result = "error") => mails[m].attempts > 1

\* goroutine g's handler performs its write in this step
Writes(g) ==
    /\ calls[g].pc \in {"CreateTask.Create", "UpdateTask.Save"}
    /\ calls'[g] # calls[g]

\* C26: the step in which CreateTask or UpdateTask starts its notification
\* goroutine is the step that completes the response, 201 or 200, with the
\* goroutine not yet run; no step of a handler touches a goroutine that
\* exists, and no step of a notification goroutine, whether its send
\* succeeds, fails or never returns, changes a stored row or a response.
C26_NotificationInBackground ==
    [][/\ \A g \in Goroutines :
             Writes(g) =>
                /\ calls'[g].pc = "done"
                /\ calls'[g].status \in {StatusOK, StatusCreated}
                /\ Len(mails') = Len(mails) + 1
                /\ mails'[Len(mails')].pc = "spawned"
       /\ calls' # calls => SubSeq(mails', 1, Len(mails)) = mails
       /\ calls' = calls =>
             /\ tasks' = tasks
             /\ projects' = projects
             /\ users' = users]_vars

\* the notification of a created task never came back from smtp.SendMail,
\* and a later update of another task was saved and answered
C26_Witness ==
    /\ Len(mails) = 2
    /\ mails[1].kind = "created"
    /\ mails[1].pc = "stuck"
    /\ mails[2].kind = "updated"
    /\ mails[2].pc = "spawned"
    /\ calls[1].op = "UpdateTask"
    /\ calls[1].pc = "done"
    /\ calls[1].status = StatusOK
    /\ tasks[1].due_date = D_jan31

\* the label the change list uses for a column of the task
FieldLabel(f) ==
    CASE f = "title"    -> "Title"
      [] f = "status"   -> "Status"
      [] f = "priority" -> "Priority"
      [] f = "estimate" -> "Estimate"
      [] OTHER          -> f

TaskFields == {"title", "project_id", "status", "priority", "estimate", "due_date"}

\* C29: the change list of an update notification has an entry for a field
\* of the task, with the value before and the value after, exactly when
\* the two differ.
C29_ChangesListEveryChangedField ==
    \A m \in 1..Len(mails) :
        (mails[m].kind = "updated" /\ mails[m].pc = "sending") =>
            \A f \in TaskFields :
                (\E i \in 1..Len(mails[m].changes) :
                    /\ mails[m].changes[i].Field = FieldLabel(f)
                    /\ mails[m].changes[i].From = mails[m].original[f]
                    /\ mails[m].changes[i].To = mails[m].task[f])
                <=> mails[m].original[f] # mails[m].task[f]

=============================================================================
